---------------------------- MODULE Spec2Model ----------------------------
(***************************************************************************)
(* A model of the EXPlora front-end: the type checker                      *)
(* (src/typeinference/type_checker.py), the type annotator                 *)
(* (src/typeinference/type_annotator.py) and the tree-walking interpreter  *)
(* (src/interpreter/interpreter.py, utils.py, builtins_.py).               *)
(*                                                                         *)
(* AST nodes, types and Python values are records tagged by a `kind`       *)
(* field.  Python's None is the record None.  A Python exception is the    *)
(* `err` field of a result record; "none" means the call returned.         *)
(***************************************************************************)
EXTENDS Integers, Sequences, FiniteSets, TLC

VARIABLES
    mode,        \* which entry point of the repository the behaviour drives
    phase,       \* position of the driver
    input,       \* the AST (or the input record) handed to the entry point
    numpy,       \* utils.NUMPY_ENABLED
    frames,      \* the heap of interpreter Frame objects, by identity
    functions,   \* Interpreter.functions : name -> FunctionDef
    calls,       \* log of the call frames created for user-defined functions
    result,      \* outcome of the last interpreter call
    inferred,    \* outcome of the last type-checker call
    tast,        \* the AST as the annotator (or the parser) left it
    type_env,    \* the annotator's environment : name -> Type
    tokens,      \* Parser.tokens
    pos          \* Parser.pos

vars == <<mode, phase, input, numpy, frames, functions, calls, result, inferred, tast, type_env,
          tokens, pos>>

-----------------------------------------------------------------------------
(* Bounds of the model *)

MaxRank == 2
MaxArity == 2
MaxFuel == 12

-----------------------------------------------------------------------------
(* Python plumbing *)

None == [kind |-> "None"]

IsNone(x) == x.kind = "None"

Ok(v) == [err |-> "none", val |-> v]

Raise(e) == [err |-> e, val |-> None]

EmptyDict == [n \in {} |-> None]

DictSet(d, k, v) == [n \in (DOMAIN d) \cup {k} |-> IF n = k THEN v ELSE d[n]]

RECURSIVE MaxOf(_)
MaxOf(s) ==
    IF Len(s) = 1 THEN s[1]
    ELSE LET m == MaxOf(Tail(s)) IN IF s[1] >= m THEN s[1] ELSE m

-----------------------------------------------------------------------------
(* ast_nodes: types *)

PrimitiveType(name) == [kind |-> "PrimitiveType", name |-> name]

RecordType(name) == [kind |-> "RecordType", name |-> name]

FunctionType(param_types, return_type) ==
    [kind |-> "FunctionType", param_types |-> param_types, return_type |-> return_type]

Type(base_type, dimension) ==
    [kind |-> "Type", base_type |-> base_type, dimension |-> dimension]

(* ast_nodes: expressions; every expression carries a `type`, None until annotated *)

PrimitiveLiteral(value) == [kind |-> "PrimitiveLiteral", value |-> value, type |-> None]

ArrayLiteral(value) == [kind |-> "ArrayLiteral", value |-> value, type |-> None]

LambdaLiteral(params, body) ==
    [kind |-> "LambdaLiteral", params |-> params, body |-> body, type |-> None]

VarRef(name) == [kind |-> "VarRef", name |-> name, type |-> None]

FunctionCall(function, arguments) ==
    [kind |-> "FunctionCall", function |-> function, arguments |-> arguments, type |-> None]

OperatorCall(operator, operands) ==
    [kind |-> "OperatorCall", operator |-> operator, operands |-> operands, type |-> None]

Block(statements) == [kind |-> "Block", statements |-> statements, type |-> None]

IfExpr(condition, then_expr, else_expr) ==
    [kind |-> "IfExpr", condition |-> condition, then_expr |-> then_expr,
     else_expr |-> else_expr, type |-> None]

(* ast_nodes: statements *)

ExprStmt(expression) == [kind |-> "ExprStmt", expression |-> expression]

Assignment(lvalue, rvalue) == [kind |-> "Assignment", lvalue |-> lvalue, rvalue |-> rvalue]

DeclStmt(declaration) == [kind |-> "DeclStmt", declaration |-> declaration]

WhileLoop(condition, body) == [kind |-> "WhileLoop", condition |-> condition, body |-> body]

(* ast_nodes: declarations *)

VarDecl(name, type, mutable, initializer) ==
    [kind |-> "VarDecl", name |-> name, type |-> type, mutable |-> mutable,
     initializer |-> initializer]

FunctionDef(name, params, return_type, body) ==
    [kind |-> "FunctionDef", name |-> name, params |-> params,
     return_type |-> return_type, body |-> body, type |-> None]

Program(declarations) == [kind |-> "Program", declarations |-> declarations]

IsExpression(n) ==
    n.kind \in {"PrimitiveLiteral", "ArrayLiteral", "LambdaLiteral", "RecordLiteral",
                "VarRef", "FieldRef", "FunctionCall", "OperatorCall", "Block", "IfExpr"}

(* Python values: a scalar is [kind, v] and a list or a tuple is [kind, items]. *)
(* A bool holds 0 or 1; a float holds its value in hundredths (3.14 is 314),   *)
(* products and quotients truncated to that precision.                         *)

PyInt(n) == [kind |-> "int", v |-> n]

PyFloat(n) == [kind |-> "float", v |-> n]

PyBool(b) == [kind |-> "bool", v |-> IF b THEN 1 ELSE 0]

PyList(items) == [kind |-> "list", items |-> items]

PyTuple(items) == [kind |-> "tuple", items |-> items]

PyStr(s) == [kind |-> "str", v |-> s]

(* isinstance(value, cls) for the scalar classes: bool is a subclass of int *)
isinstance(value, cls) == value.kind = cls \/ (cls = "int" /\ value.kind = "bool")

IntT == Type(PrimitiveType("int"), 0)

FloatT == Type(PrimitiveType("float"), 0)

BoolT == Type(PrimitiveType("bool"), 0)

UnitT == Type(PrimitiveType("unit"), 0)

-----------------------------------------------------------------------------
(* src/typeinference/type_checker.py *)

(* broadcast_dimensions: zip(reversed(param_dims), reversed(arg_dims)) pairs   *)
(* the two lists from their tails; a pair p, a with p != a, p != 0 and a != 0  *)
(* raises TypeError; otherwise the maximum of all the dimensions is returned.  *)
broadcast_dimensions(param_dims, arg_dims) ==
    LET n == IF Len(param_dims) <= Len(arg_dims) THEN Len(param_dims) ELSE Len(arg_dims)
        clash == \E i \in 0..(n - 1) :
                    LET p == param_dims[Len(param_dims) - i]
                        a == arg_dims[Len(arg_dims) - i]
                    IN  p # a /\ p # 0 /\ a # 0
    IN  IF Len(param_dims \o arg_dims) = 0 THEN Raise("ValueError")
        ELSE IF clash THEN Raise("TypeError")
        ELSE Ok(MaxOf(param_dims \o arg_dims))

(* The pairwise loop of the FunctionCall rule: broadcast_dimensions on every   *)
(* pair of ARGUMENT dimensions, then max(arg_dims); max of no arguments is a   *)
(* ValueError, which the `except TypeError` clause does not catch.             *)
CallBroadcast(param_dims, arg_dims) ==
    IF \E i \in 1..Len(arg_dims) : \E j \in (i + 1)..Len(arg_dims) :
            broadcast_dimensions(<<arg_dims[i]>>, <<arg_dims[j]>>).err # "none"
    THEN Raise("TypeError")
    ELSE IF Len(arg_dims) = 0 THEN Raise("ValueError")
    ELSE Ok(MaxOf(arg_dims))

IsBoolScalar(t) ==
    t.base_type.kind = "PrimitiveType" /\ t.base_type.name = "bool" /\ t.dimension = 0

ArithmeticOps == {"+", "-", "*", "/", "%"}

ComparisonOps == {"<", "<=", ">", ">=", "==", "!="}

(* an isinstance ladder that tests int before bool *)
LiteralTypeIntFirst(value) ==
    IF isinstance(value, "int") THEN Ok(IntT)
    ELSE IF isinstance(value, "bool") THEN Ok(BoolT)
    ELSE IF isinstance(value, "float") THEN Ok(FloatT)
    ELSE Raise("TypeError")

(* the PrimitiveLiteral rule: the isinstance ladder bool, int, float *)
LiteralType(value) ==
    IF isinstance(value, "bool") THEN Ok(BoolT)
    ELSE IF isinstance(value, "int") THEN Ok(IntT)
    ELSE IF isinstance(value, "float") THEN Ok(FloatT)
    ELSE Raise("TypeError")

(* an element test that compares base types only *)
ElementDiffersBaseOnly(elem_type, first_elem_type) ==
    elem_type.base_type # first_elem_type.base_type

(* the two tests of the ArrayLiteral rule on a further element: the whole Type *)
(* differs from the first element's, or its dimension does                     *)
ElementDiffers(elem_type, first_elem_type) ==
    elem_type # first_elem_type \/ elem_type.dimension # first_elem_type.dimension

RECURSIVE infer_expression_type(_, _), InferAll(_, _), InferBlock(_, _, _),
          InferElements(_, _, _)

(* [infer_expression_type(e, env) for e in exprs]: the first exception ends it *)
InferAll(exprs, env) ==
    IF Len(exprs) = 0 THEN Ok(<<>>)
    ELSE LET h == infer_expression_type(exprs[1], env) IN
         IF h.err # "none" THEN Raise(h.err)
         ELSE LET t == InferAll(Tail(exprs), env) IN
              IF t.err # "none" THEN Raise(t.err) ELSE Ok(<<h.val>> \o t.val)

(* the element loop of the ArrayLiteral rule: each further element is inferred *)
(* and compared with the first; either test raises TypeError                   *)
InferElements(elements, first_elem_type, env) ==
    IF Len(elements) = 0 THEN Ok(None)
    ELSE LET e == infer_expression_type(elements[1], env) IN
         IF e.err # "none" THEN e
         ELSE IF ElementDiffers(e.val, first_elem_type) THEN Raise("TypeError")
         ELSE InferElements(Tail(elements), first_elem_type, env)

(* the statement loop of the Block rule, block_env threaded through it *)
InferBlock(stmts, block_env, last_type) ==
    IF Len(stmts) = 0 THEN Ok(last_type)
    ELSE
    LET stmt == stmts[1]
        rest == Tail(stmts)
    IN
    CASE stmt.kind = "ExprStmt" ->
            LET r == infer_expression_type(stmt.expression, block_env) IN
            IF r.err # "none" THEN r ELSE InferBlock(rest, block_env, r.val)
      [] stmt.kind = "Assignment" ->
            LET l == IF stmt.lvalue.kind = "VarRef"
                     THEN IF stmt.lvalue.name \notin DOMAIN block_env
                          THEN Raise("TypeError")
                          ELSE Ok(block_env[stmt.lvalue.name])
                     ELSE IF stmt.lvalue.kind = "FieldRef"
                     THEN infer_expression_type(stmt.lvalue, block_env)
                     ELSE Raise("TypeError")
            IN
            IF l.err # "none" THEN l
            ELSE LET r == infer_expression_type(stmt.rvalue, block_env) IN
                 IF r.err # "none" THEN r
                 ELSE IF l.val.base_type # r.val.base_type \/ l.val.dimension # r.val.dimension
                 THEN Raise("TypeError")
                 ELSE InferBlock(rest, block_env, UnitT)
      [] stmt.kind = "DeclStmt" ->
            LET d == stmt.declaration IN
            CASE d.kind = "VarDecl" ->
                    LET i == IF IsNone(d.initializer) THEN Ok(None)
                             ELSE infer_expression_type(d.initializer, block_env)
                    IN
                    IF i.err # "none" THEN i
                    ELSE IF ~IsNone(d.type) /\ ~IsNone(i.val)
                            /\ (i.val.base_type # d.type.base_type
                                \/ i.val.dimension # d.type.dimension)
                    THEN Raise("TypeError")
                    ELSE LET var_type == IF ~IsNone(d.type) THEN d.type ELSE i.val IN
                         IF IsNone(var_type) THEN Raise("TypeError")
                         ELSE InferBlock(rest, DictSet(block_env, d.name, var_type), last_type)
              [] d.kind = "RecordTypeDecl" ->
                    IF \E i \in 1..Len(d.fields) : IsNone(d.fields[i].type)
                    THEN Raise("TypeError")
                    ELSE LET inits == SelectSeq(
                                [i \in 1..Len(d.fields) |-> d.fields[i].initializer],
                                LAMBDA x : ~IsNone(x))
                             f == InferAll(inits, block_env)
                         IN  IF f.err # "none" THEN Raise(f.err)
                             ELSE InferBlock(rest,
                                    DictSet(block_env, d.name, Type(RecordType(d.name), 0)),
                                    last_type)
              [] d.kind = "FunctionDef" -> InferBlock(rest, block_env, last_type)
              [] OTHER -> InferBlock(rest, block_env, last_type)
      [] stmt.kind = "WhileLoop" ->
            LET c == infer_expression_type(stmt.condition, block_env) IN
            IF c.err # "none" THEN c
            ELSE IF ~IsBoolScalar(c.val) THEN Raise("TypeError")
            ELSE LET b == infer_expression_type(stmt.body, block_env) IN
                 IF b.err # "none" THEN b ELSE InferBlock(rest, block_env, UnitT)
      [] OTHER -> Raise("TypeError")

InferFunctionCall(expr, env) ==
    LET f == infer_expression_type(expr.function, env) IN
    IF f.err # "none" THEN f
    ELSE IF f.val.base_type.kind # "FunctionType" THEN Raise("TypeError")
    ELSE
    LET a == InferAll(expr.arguments, env) IN
    IF a.err # "none" THEN Raise(a.err)
    ELSE
    LET arg_types == a.val
        param_types == f.val.base_type.param_types
    IN
    IF Len(arg_types) # Len(param_types) THEN Raise("TypeError")
    ELSE IF \E i \in 1..Len(arg_types) : arg_types[i].base_type # param_types[i].base_type
    THEN Raise("TypeError")
    ELSE
    LET param_dims == [i \in 1..Len(param_types) |-> param_types[i].dimension]
        arg_dims == [i \in 1..Len(arg_types) |-> arg_types[i].dimension]
        b == CallBroadcast(param_dims, arg_dims)
        ret_type == f.val.base_type.return_type
    IN
    IF b.err # "none" THEN Raise(b.err)
    ELSE IF IsNone(ret_type) THEN Raise("AttributeError")
    ELSE Ok(Type(ret_type.base_type, ret_type.dimension + b.val))

InferOperatorCall(expr, env) ==
    LET o == InferAll(expr.operands, env) IN
    IF o.err # "none" THEN Raise(o.err)
    ELSE IF Len(o.val) = 0 THEN Raise("IndexError")
    ELSE
    LET operand_types == o.val
        first_type == operand_types[1]
    IN
    IF \E i \in 2..Len(operand_types) : operand_types[i].base_type # first_type.base_type
    THEN Raise("TypeError")
    ELSE
    LET result_dim == MaxOf([i \in 1..Len(operand_types) |-> operand_types[i].dimension]) IN
    IF expr.operator \in ArithmeticOps THEN Ok(Type(first_type.base_type, result_dim))
    ELSE IF expr.operator \in ComparisonOps THEN Ok(Type(PrimitiveType("bool"), result_dim))
    ELSE Raise("TypeError")

infer_expression_type(expr, env) ==
    CASE expr.kind = "PrimitiveLiteral" -> LiteralType(expr.value)
      [] expr.kind = "ArrayLiteral" ->
            IF Len(expr.value) = 0 THEN Raise("IndexError")
            ELSE LET first == infer_expression_type(expr.value[1], env) IN
                 IF first.err # "none" THEN first
                 ELSE LET e == InferElements(Tail(expr.value), first.val, env) IN
                      IF e.err # "none" THEN e
                      ELSE Ok(Type(first.val.base_type, first.val.dimension + 1))
      [] expr.kind = "LambdaLiteral" ->
            IF \E i \in 1..Len(expr.params) : IsNone(expr.params[i].type)
            THEN Raise("TypeError")
            ELSE LET names == {expr.params[i].name : i \in 1..Len(expr.params)}
                     \* later parameters overwrite earlier ones of the same name
                     lambda_env == [n \in (DOMAIN env) \cup names |->
                        IF n \in names
                        THEN LET i == CHOOSE i \in 1..Len(expr.params) :
                                        /\ expr.params[i].name = n
                                        /\ \A j \in (i + 1)..Len(expr.params) :
                                              expr.params[j].name # n
                             IN  expr.params[i].type
                        ELSE env[n]]
                     b == infer_expression_type(expr.body, lambda_env)
                 IN  IF b.err # "none" THEN b
                     ELSE Ok(Type(FunctionType(
                            [i \in 1..Len(expr.params) |-> expr.params[i].type], b.val), 0))
      [] expr.kind = "VarRef" ->
            IF expr.name \notin DOMAIN env THEN Raise("TypeError") ELSE Ok(env[expr.name])
      [] expr.kind = "FunctionCall" -> InferFunctionCall(expr, env)
      [] expr.kind = "OperatorCall" -> InferOperatorCall(expr, env)
      [] expr.kind = "Block" -> InferBlock(expr.statements, env, UnitT)
      [] expr.kind = "IfExpr" ->
            LET c == infer_expression_type(expr.condition, env) IN
            IF c.err # "none" THEN c
            ELSE IF ~IsBoolScalar(c.val) THEN Raise("TypeError")
            ELSE LET t == infer_expression_type(expr.then_expr, env) IN
                 IF t.err # "none" THEN t
                 ELSE LET e == infer_expression_type(expr.else_expr, env) IN
                      IF e.err # "none" THEN e
                      ELSE IF t.val.base_type # e.val.base_type THEN Raise("TypeError")
                      ELSE IF e.val.dimension # t.val.dimension THEN Raise("TypeError")
                      ELSE Ok(Type(t.val.base_type, t.val.dimension))
      [] OTHER -> Raise("TypeError")


-----------------------------------------------------------------------------
(* Driver of the type checker: infer_expression_type on one FunctionCall whose *)
(* callee and arguments are variables of the environment, on one OperatorCall  *)
(* or ArrayLiteral over variables of the environment, and on one literal.      *)

Ranks == 0..MaxRank

ArgName(i) == <<"a1", "a2", "a3", "a4">>[i]

ParamTypes == {Type(PrimitiveType("int"), d) : d \in Ranks}

ArgTypes == {Type(PrimitiveType(b), d) : b \in {"int", "float"}, d \in Ranks}

ReturnTypes == {Type(PrimitiveType("int"), 0), Type(PrimitiveType("float"), 1)}

CallEnv(fn_type, arg_types) ==
    [n \in {"f"} \cup {ArgName(i) : i \in 1..Len(arg_types)} |->
        IF n = "f" THEN fn_type
        ELSE arg_types[CHOOSE i \in 1..Len(arg_types) : ArgName(i) = n]]

CallExpr(n) == FunctionCall(VarRef("f"), [i \in 1..n |-> VarRef(ArgName(i))])

(* the call f(a1, ..., am) in an environment that declares f and the arguments *)
CheckInput(ps, as, r, df) ==
    [family |-> "call", env |-> CallEnv(Type(FunctionType(ps, r), df), as),
     expr |-> CallExpr(Len(as))]

OperandTypes == {Type(PrimitiveType(b), d) : b \in {"int", "float", "bool"}, d \in Ranks}

(* the operators of the checker's two lists, and one it does not know *)
CheckedOperators == ArithmeticOps \cup ComparisonOps \cup {"@"}

OperandEnv(types) ==
    [n \in {ArgName(i) : i \in 1..Len(types)} |->
        types[CHOOSE i \in 1..Len(types) : ArgName(i) = n]]

OperandRefs(n) == [i \in 1..n |-> VarRef(ArgName(i))]

(* a1 op a2 (or op a1) in an environment that declares the operands *)
OperatorCheckInput(op, types) ==
    [family |-> "operator", env |-> OperandEnv(types),
     expr |-> OperatorCall(op, OperandRefs(Len(types)))]

(* [a1, ..., an] in an environment that declares the elements *)
ArrayCheckInput(types) ==
    [family |-> "array", env |-> OperandEnv(types),
     expr |-> ArrayLiteral(OperandRefs(Len(types)))]

MaxElements == 3

(* the values a PrimitiveLiteral can hold: what parse_primary builds from      *)
(* NUMBER, STRING, CHAR and true/false tokens                                  *)
LiteralValues ==
    {PyBool(TRUE), PyBool(FALSE), PyInt(0), PyInt(1), PyInt(42), PyFloat(0), PyFloat(100),
     PyFloat(314), PyStr("a")}

LiteralCheckInput(v) ==
    [family |-> "literal", env |-> EmptyDict, expr |-> PrimitiveLiteral(v)]

NoResult == [err |-> "pending", val |-> None]

CheckInit ==
    /\ mode = "check"
    /\ phase = "input"
    /\ \/ \E n \in 0..MaxArity, m \in 0..MaxArity :
         \E ps \in [1..n -> ParamTypes], as \in [1..m -> ArgTypes],
            r \in ReturnTypes, df \in 0..1 :
                input = CheckInput(ps, as, r, df)
       \/ \E op \in CheckedOperators, n \in 1..MaxArity :
            \E types \in [1..n -> OperandTypes] : input = OperatorCheckInput(op, types)
       \/ \E n \in 1..MaxElements :
            \E types \in [1..n -> OperandTypes] : input = ArrayCheckInput(types)
       \/ \E v \in LiteralValues : input = LiteralCheckInput(v)
    /\ numpy = FALSE
    /\ frames = <<>>
    /\ functions = EmptyDict
    /\ calls = <<>>
    /\ result = NoResult
    /\ inferred = NoResult
    /\ tast = None
    /\ type_env = EmptyDict
    /\ tokens = <<>>
    /\ pos = 0

CheckCall ==
    /\ mode = "check"
    /\ phase = "input"
    /\ inferred' = infer_expression_type(input.expr, input.env)
    /\ phase' = "done"
    /\ UNCHANGED <<tokens, pos, mode, input, numpy, frames, functions, calls, result, tast, type_env>>

CheckNext == CheckCall

SpecCheck == CheckInit /\ [][CheckNext]_vars


-----------------------------------------------------------------------------
(* Claims about the FunctionCall rule, read on the checked call *)

CalleeType == input.env["f"]

DeclaredParams == CalleeType.base_type.param_types

DeclaredReturn == CalleeType.base_type.return_type

CallArgs == [i \in 1..Len(input.expr.arguments) |-> input.env[ArgName(i)]]

ExtraRank(i) == CallArgs[i].dimension - DeclaredParams[i].dimension

ArityAndBasesMatch ==
    /\ Len(CallArgs) = Len(DeclaredParams)
    /\ \A i \in 1..Len(CallArgs) : CallArgs[i].base_type = DeclaredParams[i].base_type

ExtrasCompatible ==
    \A i, j \in 1..Len(CallArgs) :
        ExtraRank(i) = 0 \/ ExtraRank(j) = 0 \/ ExtraRank(i) = ExtraRank(j)

PassesBroadcastChecks ==
    /\ ArityAndBasesMatch
    /\ \A i \in 1..Len(CallArgs) : ExtraRank(i) >= 0
    /\ ExtrasCompatible

MaxExtraRank == MaxOf([i \in 1..Len(CallArgs) |-> ExtraRank(i)])

CallChecked == mode = "check" /\ input.family = "call" /\ phase = "done"

(* C3: a call that passes the broadcasting checks is inferred as               *)
(* T(R.base, R.dim + D + d_f), D the largest extra rank (argument rank minus   *)
(* declared parameter rank) and d_f the dimension of the function value.       *)
C3_ResultIsReturnPlusExtraPlusFnDim ==
    (CallChecked /\ PassesBroadcastChecks /\ Len(CallArgs) >= 1)
        => inferred = Ok(Type(DeclaredReturn.base_type,
                              DeclaredReturn.dimension + MaxExtraRank + CalleeType.dimension))

(* C4: among calls of matching arity and base types, the call is rejected with *)
(* TypeError exactly when two extra ranks are incompatible (neither is 0 and   *)
(* they differ).                                                               *)
C4_RejectedIffExtrasIncompatible ==
    (CallChecked /\ ArityAndBasesMatch /\ \A i \in 1..Len(CallArgs) : ExtraRank(i) >= 0)
        => (inferred.err = "TypeError" <=> ~ExtrasCompatible)

(* C5: a call with an argument of lower rank than its parameter's declared     *)
(* rank fails with TypeError.                                                  *)
C5_UnderRankRejected ==
    (CallChecked /\ ArityAndBasesMatch /\ \E i \in 1..Len(CallArgs) : ExtraRank(i) < 0)
        => inferred.err = "TypeError"

(* C6: f : (T(b,0)) -> T(b,0) applied to T(b,k) is inferred as T(b,k); a call  *)
(* of a function of any arity, none included, whose parameters and arguments   *)
(* are all scalars is inferred as exactly the declared return type.            *)
C6_BroadcastingIdentity ==
    (CallChecked /\ ArityAndBasesMatch /\ CalleeType.dimension = 0
     /\ \A i \in 1..Len(DeclaredParams) : DeclaredParams[i].dimension = 0)
        => /\ (Len(CallArgs) = 1 /\ DeclaredReturn = DeclaredParams[1])
                => inferred = Ok(Type(CallArgs[1].base_type, CallArgs[1].dimension))
           /\ (\A i \in 1..Len(CallArgs) : CallArgs[i].dimension = 0)
                => inferred = Ok(DeclaredReturn)


-----------------------------------------------------------------------------
(* src/interpreter/utils.py *)

RuntimeValue(value, static_type, shape, is_function, func_meta) ==
    [kind |-> "RuntimeValue", value |-> value, static_type |-> static_type,
     shape |-> shape, is_function |-> is_function, func_meta |-> func_meta]

(* RuntimeValue(value, static_type=t): the other fields at their defaults *)
PlainValue(value, static_type) == RuntimeValue(value, static_type, None, FALSE, None)

(* An n-d array of the dense library: its shape, its dtype and its elements in *)
(* row-major order.                                                            *)
NdArrayOf(shape, dtype, data) ==
    [kind |-> "ndarray", shape |-> shape, dtype |-> dtype, data |-> data]

RECURSIVE ListDims(_)
(* the `while isinstance(curr, list)` loop of shape_of_array *)
ListDims(curr) ==
    IF curr.kind # "list" THEN <<>>
    ELSE IF Len(curr.items) = 0 THEN <<0>>
    ELSE <<Len(curr.items)>> \o ListDims(curr.items[1])

(* shape_of_array: a tuple of dims for an array, the integer 0 for the rest *)
shape_of_array(val, np) ==
    IF np /\ val.kind = "ndarray" THEN PyTuple(val.shape)
    ELSE IF val.kind = "list" THEN PyTuple(ListDims(val))
    ELSE PyInt(0)

(* number of axes a shape value stands for *)
ShapeRank(shape) == IF shape.kind = "tuple" THEN Len(shape.items) ELSE 0

-----------------------------------------------------------------------------
(* src/interpreter/interpreter.py: Frame *)

Frame(parent) == [vars |-> EmptyDict, parent |-> parent]

(* Frame.define on the frame with identity f *)
define(fs, f, name, rv) == [fs EXCEPT ![f].vars = DictSet(fs[f].vars, name, rv)]

RECURSIVE lookup(_, _, _)
(* Frame.lookup; parent 0 is Python's None *)
lookup(fs, f, name) ==
    IF name \in DOMAIN fs[f].vars THEN Ok(fs[f].vars[name])
    ELSE IF fs[f].parent # 0 THEN lookup(fs, fs[f].parent, name)
    ELSE Raise("RuntimeTypeError")

-----------------------------------------------------------------------------
(* src/interpreter/interpreter.py: Interpreter._type_eq, _check_type_match *)

RECURSIVE type_eq(_, _)
(* _type_eq compares the base types only; a None where a Type is expected is   *)
(* an AttributeError.                                                          *)
type_eq(a, b) ==
    IF IsNone(a) \/ IsNone(b) THEN Raise("AttributeError")
    ELSE
    LET ba == a.base_type
        bb == b.base_type
    IN
    IF ba.kind # bb.kind THEN Ok(FALSE)
    ELSE IF ba.kind \in {"PrimitiveType", "RecordType"} THEN Ok(ba.name = bb.name)
    ELSE IF ba.kind = "FunctionType" THEN
        IF Len(ba.param_types) # Len(bb.param_types) THEN Ok(FALSE)
        ELSE LET firstBad == {i \in 1..Len(ba.param_types) :
                                type_eq(ba.param_types[i], bb.param_types[i]) # Ok(TRUE)}
             IN  IF firstBad # {}
                 THEN LET i == CHOOSE i \in firstBad : \A j \in firstBad : i <= j
                          r == type_eq(ba.param_types[i], bb.param_types[i])
                      IN  IF r.err # "none" THEN r ELSE Ok(FALSE)
                 ELSE type_eq(ba.return_type, bb.return_type)
    ELSE Ok(FALSE)

(* the isinstance ladder of _check_type_match on actual.value *)
InferredFromValue(actual, np) ==
    LET v == actual.value
        fm == actual.func_meta
    IN
    IF IsNone(v) THEN Ok(PrimitiveType("unit"))
    ELSE IF v.kind = "bool" THEN Ok(PrimitiveType("bool"))
    ELSE IF v.kind = "int" THEN Ok(PrimitiveType("int"))
    ELSE IF v.kind = "float" THEN Ok(PrimitiveType("float"))
    ELSE IF np /\ v.kind = "ndarray" THEN Ok(RecordType("array"))
    ELSE IF v.kind = "list" THEN Ok(RecordType("array"))
    ELSE IF actual.is_function THEN
        LET has(k) == fm # None /\ k \in DOMAIN fm IN
        IF has("params_type") /\ has("return_type")
        THEN Ok(FunctionType(fm["params_type"], fm["return_type"]))
        ELSE IF has("params_type") THEN Ok(FunctionType(fm["params_type"], UnitT))
        ELSE IF has("return_type") THEN Ok(FunctionType(<<>>, fm["return_type"]))
        ELSE Ok(FunctionType(<<>>, UnitT))
    ELSE Raise("RuntimeTypeError")

(* _check_type_match(expected, actual): "none" when the value is let through *)
check_type_match(expected, actual, np) ==
    IF IsNone(expected) THEN Ok(None)
    ELSE
    LET direct == IF IsNone(actual.static_type) THEN Ok(FALSE)
                  ELSE type_eq(expected, actual.static_type)
    IN
    IF direct.err # "none" THEN Raise(direct.err)
    ELSE IF direct.val THEN Ok(None)
    ELSE
    LET inferred_ == InferredFromValue(actual, np) IN
    IF inferred_.err # "none" THEN Raise(inferred_.err)
    ELSE IF expected.base_type.kind \in {"PrimitiveType", "RecordType"} THEN
        IF inferred_.val.kind = "FunctionType" THEN Raise("AttributeError")
        ELSE IF inferred_.val.name = expected.base_type.name THEN Ok(None)
        ELSE Raise("RuntimeTypeError")
    ELSE IF expected.base_type.kind = "FunctionType" THEN
        IF ~actual.is_function THEN Raise("RuntimeTypeError") ELSE Ok(None)
    ELSE Ok(None)


-----------------------------------------------------------------------------
(* Python's operators on the values the interpreter hands them *)

IsNumber(x) == x.kind \in {"bool", "int", "float"}

Hundredths(x) == IF x.kind = "float" THEN x.v ELSE x.v * 100

Numeric(a, b, n, h) == IF a.kind = "float" \/ b.kind = "float" THEN PyFloat(h) ELSE PyInt(n)

RECURSIVE Repeat(_, _)
Repeat(items, n) == IF n <= 0 THEN <<>> ELSE items \o Repeat(items, n - 1)

RECURSIVE PyEq(_, _)
(* a == b *)
PyEq(a, b) ==
    IF IsNone(a) \/ IsNone(b) THEN IsNone(a) /\ IsNone(b)
    ELSE IF IsNumber(a) /\ IsNumber(b) THEN Hundredths(a) = Hundredths(b)
    ELSE IF a.kind \in {"list", "tuple"} /\ a.kind = b.kind
    THEN /\ Len(a.items) = Len(b.items)
         /\ \A i \in 1..Len(a.items) : PyEq(a.items[i], b.items[i])
    ELSE FALSE

RECURSIVE PyLess(_, _, _)
(* a < b, or a <= b when orEqual; sequences compare lexicographically *)
PyLess(a, b, orEqual) ==
    IF IsNone(a) \/ IsNone(b) THEN Raise("TypeError")
    ELSE IF IsNumber(a) /\ IsNumber(b)
    THEN Ok(IF orEqual THEN Hundredths(a) <= Hundredths(b) ELSE Hundredths(a) < Hundredths(b))
    ELSE IF a.kind \in {"list", "tuple"} /\ a.kind = b.kind THEN
        LET n == IF Len(a.items) <= Len(b.items) THEN Len(a.items) ELSE Len(b.items)
            diff == {i \in 1..n : ~PyEq(a.items[i], b.items[i])}
        IN  IF diff = {}
            THEN Ok(IF orEqual THEN Len(a.items) <= Len(b.items)
                    ELSE Len(a.items) < Len(b.items))
            ELSE LET i == CHOOSE i \in diff : \A j \in diff : i <= j
                 IN  PyLess(a.items[i], b.items[i], orEqual)
    ELSE Raise("TypeError")

PyAdd(a, b) ==
    IF IsNone(a) \/ IsNone(b) THEN Raise("TypeError")
    ELSE IF IsNumber(a) /\ IsNumber(b)
    THEN Ok(Numeric(a, b, a.v + b.v, Hundredths(a) + Hundredths(b)))
    ELSE IF a.kind \in {"list", "tuple"} /\ a.kind = b.kind
    THEN Ok([kind |-> a.kind, items |-> a.items \o b.items])
    ELSE Raise("TypeError")

PySub(a, b) ==
    IF IsNone(a) \/ IsNone(b) THEN Raise("TypeError")
    ELSE IF IsNumber(a) /\ IsNumber(b)
    THEN Ok(Numeric(a, b, a.v - b.v, Hundredths(a) - Hundredths(b)))
    ELSE Raise("TypeError")

PyMul(a, b) ==
    IF IsNone(a) \/ IsNone(b) THEN Raise("TypeError")
    ELSE IF IsNumber(a) /\ IsNumber(b)
    THEN Ok(Numeric(a, b, a.v * b.v, (Hundredths(a) * Hundredths(b)) \div 100))
    ELSE IF a.kind \in {"list", "tuple"} /\ b.kind \in {"bool", "int"}
    THEN Ok([kind |-> a.kind, items |-> Repeat(a.items, b.v)])
    ELSE IF b.kind \in {"list", "tuple"} /\ a.kind \in {"bool", "int"}
    THEN Ok([kind |-> b.kind, items |-> Repeat(b.items, a.v)])
    ELSE Raise("TypeError")

(* true division: a float even for two ints *)
PyDiv(a, b) ==
    IF IsNone(a) \/ IsNone(b) THEN Raise("TypeError")
    ELSE IF IsNumber(a) /\ IsNumber(b)
    THEN IF b.v = 0 THEN Raise("ZeroDivisionError")
         ELSE Ok(PyFloat((Hundredths(a) * 100) \div Hundredths(b)))
    ELSE Raise("TypeError")

(* -a *)
PyNeg(a) ==
    IF IsNone(a) THEN Raise("TypeError")
    ELSE IF a.kind = "float" THEN Ok(PyFloat(0 - a.v))
    ELSE IF a.kind \in {"bool", "int"} THEN Ok(PyInt(0 - a.v))
    ELSE IF a.kind = "ndarray" /\ a.dtype # "bool"
    THEN Ok([a EXCEPT !.data = [i \in 1..Len(a.data) |-> 0 - a.data[i]]])
    ELSE Raise("TypeError")

(* bool(a); an array of several elements has no truth value *)
Truthy(a) ==
    IF IsNone(a) THEN Ok(FALSE)
    ELSE IF IsNumber(a) THEN Ok(a.v # 0)
    ELSE IF a.kind \in {"list", "tuple"} THEN Ok(Len(a.items) > 0)
    ELSE IF a.kind = "ndarray"
    THEN IF Len(a.data) > 1 THEN Raise("ValueError")
         ELSE Ok(Len(a.data) = 1 /\ a.data[1] # 0)
    ELSE Ok(TRUE)

(* a[b] on a list or tuple; every failure is an exception of some kind *)
PyIndex(a, b) ==
    IF IsNone(a) \/ IsNone(b) THEN Raise("TypeError")
    ELSE IF a.kind \in {"list", "tuple"} /\ b.kind \in {"bool", "int"}
    THEN LET i == IF b.v < 0 THEN b.v + Len(a.items) ELSE b.v IN
         IF i < 0 \/ i >= Len(a.items) THEN Raise("IndexError") ELSE Ok(a.items[i + 1])
    ELSE Raise("TypeError")


-----------------------------------------------------------------------------
(* The dense n-d array library, as far as the interpreter uses it.  Ragged     *)
(* nestings are rejected (ValueError, as numpy does since 1.24); arrays of     *)
(* non-numbers and non-finite quotients are outside the modelled values and    *)
(* end the evaluation as "Unmodelled".                                         *)

RECURSIVE Product(_)
Product(shape) == IF Len(shape) = 0 THEN 1 ELSE shape[1] * Product(Tail(shape))

PromoteDtype(kinds) ==
    IF "float" \in kinds THEN "float" ELSE IF "int" \in kinds THEN "int" ELSE "bool"

(* the stored element of a number converted to dtype *)
AsDtype(v, from, to) == IF to = "float" /\ from # "float" THEN v * 100 ELSE v

RECURSIVE Flatten(_)
Flatten(seqs) == IF Len(seqs) = 0 THEN <<>> ELSE seqs[1] \o Flatten(Tail(seqs))

(* the array a number, an array or a list converts to (0-d for a number) *)
RECURSIVE np_array(_)
np_array(x) ==
    IF IsNone(x) THEN Raise("Unmodelled")
    ELSE IF x.kind = "ndarray" THEN Ok(x)
    ELSE IF IsNumber(x) THEN Ok(NdArrayOf(<<>>, x.kind, <<x.v>>))
    ELSE IF x.kind \in {"list", "tuple"} THEN
        IF Len(x.items) = 0 THEN Ok(NdArrayOf(<<0>>, "float", <<>>))
        ELSE
        LET parts == [i \in 1..Len(x.items) |-> np_array(x.items[i])] IN
        IF \E i \in 1..Len(parts) : parts[i].err # "none"
        THEN Raise((parts[CHOOSE i \in 1..Len(parts) : parts[i].err # "none"]).err)
        ELSE IF \E i \in 2..Len(parts) : parts[i].val.shape # parts[1].val.shape
        THEN Raise("ValueError")
        ELSE LET dtype == PromoteDtype({parts[i].val.dtype : i \in 1..Len(parts)})
             IN  Ok(NdArrayOf(<<Len(parts)>> \o parts[1].val.shape, dtype,
                        Flatten([i \in 1..Len(parts) |->
                            [k \in 1..Len(parts[i].val.data) |->
                                AsDtype(parts[i].val.data[k], parts[i].val.dtype, dtype)]])))
    ELSE Raise("Unmodelled")

(* the shape two shapes broadcast to: aligned from the right, two extents are  *)
(* compatible when equal or when one of them is 1                               *)
BroadcastShape(sa, sb) ==
    LET n == IF Len(sa) >= Len(sb) THEN Len(sa) ELSE Len(sb)
        ext(sh, i) == IF i - (n - Len(sh)) >= 1 THEN sh[i - (n - Len(sh))] ELSE 1
    IN  IF \E i \in 1..n : ext(sa, i) # ext(sb, i) /\ ext(sa, i) # 1 /\ ext(sb, i) # 1
        THEN Raise("ValueError")
        ELSE Ok([i \in 1..n |-> IF ext(sa, i) = 1 THEN ext(sb, i) ELSE ext(sa, i)])

(* the multi-index of the k-th element (k from 0) of an array of this shape *)
RECURSIVE Unravel(_, _)
Unravel(k, shape) ==
    IF Len(shape) = 0 THEN <<>>
    ELSE LET inner == Product(Tail(shape)) IN <<k \div inner>> \o Unravel(k % inner, Tail(shape))

(* position (from 1) in the operand's data of the element that is broadcast    *)
(* to the multi-index idx of the result                                        *)
RECURSIVE Ravel(_, _, _)
Ravel(idx, rshape, oshape) ==
    IF Len(oshape) = 0 THEN 1
    ELSE LET off == Len(rshape) - Len(oshape)
             i == IF oshape[1] = 1 THEN 0 ELSE idx[off + 1]
         IN  i * Product(Tail(oshape)) + Ravel(idx, rshape, Tail(oshape))

NpArithmeticOps == {"+", "-", "*", "/"}

(* one element of a op b, x and y stored in the operands' common dtype *)
NpElement(op, dtype, x, y) ==
    CASE op = "+" -> IF dtype = "bool" THEN (IF x + y > 0 THEN 1 ELSE 0) ELSE x + y
      [] op = "-" -> x - y
      [] op = "*" -> IF dtype = "float" THEN (x * y) \div 100 ELSE x * y
      [] op = "/" -> IF dtype = "float" THEN (x * 100) \div y ELSE (x * 100) \div y
      [] op = "==" -> IF x = y THEN 1 ELSE 0
      [] op = "!=" -> IF x # y THEN 1 ELSE 0
      [] op = "<" -> IF x < y THEN 1 ELSE 0
      [] op = ">" -> IF x > y THEN 1 ELSE 0
      [] op = "<=" -> IF x <= y THEN 1 ELSE 0
      [] op = ">=" -> IF x >= y THEN 1 ELSE 0

(* a op b element-wise with broadcasting, for the operators the interpreter's  *)
(* array branch hands to the library                                           *)
NpBinary(op, a, b) ==
    LET na == np_array(a)
        nb == np_array(b)
    IN
    IF na.err # "none" THEN Raise(na.err)
    ELSE IF nb.err # "none" THEN Raise(nb.err)
    ELSE
    LET sh == BroadcastShape(na.val.shape, nb.val.shape) IN
    IF sh.err # "none" THEN Raise(sh.err)
    ELSE IF op = "-" /\ na.val.dtype = "bool" /\ nb.val.dtype = "bool" THEN Raise("TypeError")
    ELSE
    LET common == PromoteDtype({na.val.dtype, nb.val.dtype})
        x(k) == AsDtype(na.val.data[Ravel(Unravel(k, sh.val), sh.val, na.val.shape)],
                        na.val.dtype, common)
        y(k) == AsDtype(nb.val.data[Ravel(Unravel(k, sh.val), sh.val, nb.val.shape)],
                        nb.val.dtype, common)
        n == Product(sh.val)
        out == IF op = "/" THEN "float"
               ELSE IF op \in NpArithmeticOps THEN common ELSE "bool"
    IN
    IF op = "/" /\ \E k \in 0..(n - 1) : y(k) = 0 THEN Raise("Unmodelled")
    ELSE Ok(NdArrayOf(sh.val, out, [k \in 1..n |-> NpElement(op, common, x(k - 1), y(k - 1))]))


-----------------------------------------------------------------------------
(* src/interpreter/builtins_.py and utils.build *)

RECURSIVE build_inner(_)
(* build(dims[1:]) as the recursive call is written: without init_val and      *)
(* init_type, so every inner level is built with the defaults 0 and float      *)
build_inner(dims) ==
    IF Len(dims) = 0 THEN PyFloat(0)
    ELSE PyList([i \in 1..dims[1] |-> build_inner(Tail(dims))])

(* build(dims, init_val, init_type) *)
build(dims, init_val, init_type) ==
    IF Len(dims) = 0
    THEN (IF init_type = "float" THEN PyFloat(init_val * 100) ELSE PyInt(init_val))
    ELSE PyList([i \in 1..dims[1] |-> build_inner(Tail(dims))])

RECURSIVE tolist(_)
(* ndarray.tolist() *)
tolist(a) ==
    IF Len(a.shape) = 0 THEN [kind |-> a.dtype, v |-> a.data[1]]
    ELSE LET inner == Product(Tail(a.shape)) IN
         PyList([i \in 1..a.shape[1] |->
                    tolist(NdArrayOf(Tail(a.shape), a.dtype,
                                     SubSeq(a.data, (i - 1) * inner + 1, i * inner)))])

(* _builtin_zeros (fill = 0) and _builtin_ones (fill = 1), which differ in the *)
(* fill value only                                                             *)
builtin_fill(args, fill, np) ==
    IF Len(args) \notin {1, 2} THEN Raise("RuntimeTypeError")
    ELSE
    LET v0 == args[1].value
        shape_val ==
            IF ~IsNone(v0) /\ v0.kind \in {"tuple", "list"} THEN Ok(v0)
            ELSE IF ~np THEN Raise("AttributeError")
            ELSE IF ~IsNone(v0) /\ v0.kind = "ndarray" THEN Ok(tolist(v0))
            ELSE Raise("RuntimeTypeError")
    IN
    IF shape_val.err # "none" THEN shape_val
    \* no expression of the language evaluates to the Python types float or int
    ELSE IF Len(args) = 2 THEN Raise("RuntimeTypeError")
    ELSE IF shape_val.val.kind \notin {"tuple", "list"} THEN Raise("TypeError")
    ELSE
    LET dims == shape_val.val.items IN
    IF \E i \in 1..Len(dims) : IsNone(dims[i]) \/ dims[i].kind \notin {"int", "bool"}
    THEN Raise("TypeError")
    ELSE
    LET shape == [i \in 1..Len(dims) |-> dims[i].v]
        static == Type(RecordType("array"), Len(dims))
    IN
    IF np
    THEN IF \E i \in 1..Len(shape) : shape[i] < 0 THEN Raise("ValueError")
         ELSE LET arr == NdArrayOf(shape, "float", [k \in 1..Product(shape) |-> fill * 100])
              IN  Ok(RuntimeValue(arr, static, shape_of_array(arr, np), FALSE, None))
    ELSE LET arr == build(shape, fill, "float")
         IN  Ok(RuntimeValue(arr, static, shape_of_array(arr, np), FALSE, None))

(* _builtin_shape *)
builtin_shape(args, np) ==
    IF Len(args) # 1 THEN Raise("RuntimeTypeError")
    ELSE Ok(RuntimeValue(shape_of_array(args[1].value, np),
                         Type(PrimitiveType("array"), 1), None, FALSE, None))

BuiltinNames == {"print", "zeros", "ones", "shape"}

(* BUILTINS[name](args) *)
call_builtin(name, args, np) ==
    CASE name = "print" -> Ok(PlainValue(None, None))
      [] name = "zeros" -> builtin_fill(args, 0, np)
      [] name = "ones" -> builtin_fill(args, 1, np)
      [] name = "shape" -> builtin_shape(args, np)


-----------------------------------------------------------------------------
(* src/interpreter/interpreter.py: Interpreter.eval_expression, exec_statement *)
(*                                                                             *)
(* The interpreter's state is threaded through the evaluation as the record    *)
(* st = [frames, functions, calls, numpy, fuel]; a frame is named by its       *)
(* position in st.frames.  Every evaluation returns [st, err, val].  fuel      *)
(* bounds the calls and loop iterations of one evaluation; running out of it   *)
(* ends the evaluation as "OutOfFuel".                                         *)

Return(st, v) == [st |-> st, err |-> "none", val |-> v]

Throw(st, e) == [st |-> st, err |-> e, val |-> None]

(* Frame() allocated without its parent *)
NewFrameDetached(st, p) == [st EXCEPT !.frames = Append(st.frames, Frame(0))]

(* Frame(parent=p) allocated; its identity is Len(st.frames) afterwards *)
NewFrame(st, p) == [st EXCEPT !.frames = Append(st.frames, Frame(p))]

(* the frame a FunctionDef called by name is evaluated under: Frame(parent=frame) *)
FunctionDefCallParent(closure, frame) == frame

(* dynamic scoping: the call frame hangs under the caller's frame *)
LambdaCallParentDynamic(closure, frame) == frame

(* the frame a lambda closure is evaluated under: Frame(parent=closure) *)
LambdaCallParent(closure, frame) == closure

(* the statements of a Block executed in the enclosing frame itself *)
BlockFrameShared(local_frame, frame) == frame

(* the frame the statements of a Block are executed in: local_frame, the       *)
(* Frame(parent=frame) just allocated                                          *)
BlockFrame(local_frame, frame) == local_frame

(* the array branch of the binary OperatorCall; every exception raised inside  *)
(* it is re-raised as RuntimeTypeError                                         *)
ArrayOperator(op, a, b) ==
    LET Reraise(r) ==
            IF r.err \in {"none", "Unmodelled"} THEN r ELSE Raise("RuntimeTypeError")
    IN  Reraise(IF op \in NpArithmeticOps \cup ComparisonOps THEN NpBinary(op, a, b)
                ELSE IF op \in {"index", "[]"} /\ a.kind = "ndarray" /\ b.kind = "int"
                        /\ Len(a.shape) >= 1 /\ (b.v >= a.shape[1] \/ b.v < 0 - a.shape[1])
                THEN Raise("IndexError")
                ELSE IF op \in {"@", "index", "[]"} THEN Raise("Unmodelled")
                ELSE Raise("RuntimeTypeError"))

(* a comparison's outcome as a Python bool *)
AsBool(c) == IF c.err # "none" THEN c ELSE Ok(PyBool(c.val))

(* a and b, a or b: the operand the truth value t of a selects *)
Select(t, whenTrue, whenFalse) ==
    IF t.err # "none" THEN t ELSE Ok(IF t.val THEN whenTrue ELSE whenFalse)

(* the scalar/list branch of the binary OperatorCall; only TypeError is        *)
(* converted, an indexing failure is raised as RuntimeTypeError directly       *)
ScalarOperator(op, a, b) ==
    LET Reraise(r) == IF r.err = "TypeError" THEN Raise("RuntimeTypeError") ELSE r
        IndexError(i) == IF i.err # "none" THEN Raise("RuntimeTypeError") ELSE i
    IN  Reraise(CASE op = "+" -> PyAdd(a, b)
                  [] op = "-" -> PySub(a, b)
                  [] op = "*" -> PyMul(a, b)
                  [] op = "/" -> PyDiv(a, b)
                  [] op = "==" -> Ok(PyBool(PyEq(a, b)))
                  [] op = "!=" -> Ok(PyBool(~PyEq(a, b)))
                  [] op \in {"<", "<="} -> AsBool(PyLess(a, b, op = "<="))
                  [] op \in {">", ">="} -> AsBool(PyLess(b, a, op = ">="))
                  [] op = "and" -> Select(Truthy(a), b, a)
                  [] op = "or" -> Select(Truthy(a), a, b)
                  [] op \in {"index", "[]"} -> IndexError(PyIndex(a, b))
                  [] OTHER -> Raise("RuntimeTypeError"))

UsesArrayBranch(np, a, b) == np /\ (a.kind = "ndarray" \/ b.kind = "ndarray")

(* the OperatorCall case once the operands are evaluated *)
ApplyOperator(op, ops, np) ==
    LET Negated(t) == IF t.err # "none" THEN t ELSE Ok(PyBool(~t.val))
        Plain(u) == IF u.err # "none" THEN u ELSE Ok(PlainValue(u.val, None))
        Shaped(r) ==
            IF r.err # "none" THEN r
            ELSE Ok(RuntimeValue(r.val, None, shape_of_array(r.val, np), FALSE, None))
    IN
    IF Len(ops) = 1 THEN
        Plain(IF op = "-" THEN PyNeg(ops[1].value)
              ELSE IF op = "not" THEN Negated(Truthy(ops[1].value))
              ELSE Raise("RuntimeTypeError"))
    ELSE IF Len(ops) = 2 THEN
        Shaped(IF UsesArrayBranch(np, ops[1].value, ops[2].value)
               THEN ArrayOperator(op, ops[1].value, ops[2].value)
               ELSE ScalarOperator(op, ops[1].value, ops[2].value))
    ELSE Raise("RuntimeTypeError")

(* the LambdaLiteral case: the current frame is captured in func_meta *)
LambdaValue(node, frame) ==
    LET return_type == IF node.type.kind = "Type" THEN node.type ELSE None IN
    RuntimeValue(None, return_type, None, TRUE,
                 [params |-> node.params, return_type |-> return_type,
                  node |-> node, closure |-> frame])

(* the function value run() and the DeclStmt case wrap a FunctionDef in *)
FunctionDefValue(decl, frame) ==
    LET params_type == [i \in 1..Len(decl.params) |-> decl.params[i].type] IN
    RuntimeValue(None, Type(FunctionType(params_type, decl.return_type), 0), None, TRUE,
                 [node |-> decl, closure |-> frame, params_type |-> params_type,
                  return_type |-> decl.return_type])

BuiltinValue(name) ==
    RuntimeValue([kind |-> "pyfunc", name |-> name], None, None, TRUE,
                 [builtin |-> TRUE, pyfunc |-> name])

(* self._check_type_match(expected, r.val) on the outcome r of an evaluation:  *)
(* r itself when the check passes                                              *)
Checked(expected, r) ==
    IF r.err # "none" THEN r
    ELSE LET Outcome(c) == IF c.err # "none" THEN Throw(r.st, c.err) ELSE r
         IN  Outcome(check_type_match(expected, r.val, r.st.numpy))

RECURSIVE eval_expression(_, _, _), exec_statement(_, _, _), EvalAll(_, _, _),
          BindParams(_, _, _, _, _), ExecBlock(_, _, _, _), WhileIterations(_, _, _),
          EvalFunctionCall(_, _, _), CallBody(_, _, _, _, _, _, _), DeclareVar(_, _, _)

(* [self.eval_expression(e, frame) for e in exprs], left to right *)
EvalAll(exprs, frame, st) ==
    IF Len(exprs) = 0 THEN Return(st, <<>>)
    ELSE LET Rest(h) ==
                IF h.err # "none" THEN h
                ELSE LET Join(t) ==
                            IF t.err # "none" THEN t ELSE Return(t.st, <<h.val>> \o t.val)
                     IN  Join(EvalAll(Tail(exprs), frame, h.st))
         IN  Rest(eval_expression(exprs[1], frame, st))

(* the parameter loop of a call: each argument is evaluated in the caller's    *)
(* frame, checked against the parameter's type and defined in the call frame   *)
BindParams(params, arguments, frame, call_frame, st) ==
    IF Len(params) = 0 \/ Len(arguments) = 0 THEN Return(st, None)
    ELSE LET Rest(a) ==
                IF a.err # "none" THEN a
                ELSE BindParams(Tail(params), Tail(arguments), frame, call_frame,
                        [a.st EXCEPT !.frames =
                            define(a.st.frames, call_frame, params[1].name, a.val)])
         IN  Rest(Checked(params[1].type, eval_expression(arguments[1], frame, st)))

(* the statement loop of the Block case *)
ExecBlock(stmts, local_frame, last_val, st) ==
    IF Len(stmts) = 0
    THEN Return(st, IF ~IsNone(last_val) THEN last_val ELSE PlainValue(None, None))
    ELSE LET Rest(v) ==
                IF v.err # "none" THEN v
                ELSE ExecBlock(Tail(stmts), local_frame,
                               IF stmts[1].kind = "ExprStmt" THEN v.val ELSE last_val, v.st)
         IN  Rest(exec_statement(stmts[1], local_frame, st))

(* the `while True` loop of the WhileLoop case *)
WhileIterations(node, frame, st) ==
    IF st.fuel = 0 THEN Throw(st, "OutOfFuel")
    ELSE
    LET Again(b) == IF b.err # "none" THEN b ELSE WhileIterations(node, frame, b.st)
        Test(c, t) ==
            IF t.err # "none" THEN Throw(c.st, t.err)
            ELSE IF ~t.val THEN Return(c.st, None)
            ELSE Again(exec_statement(node.body, frame, c.st))
        Condition(c) == IF c.err # "none" THEN c ELSE Test(c, Truthy(c.val.value))
    IN  Condition(eval_expression(node.condition, frame, [st EXCEPT !.fuel = @ - 1]))

(* a user-defined function called: the call frame is allocated under parent    *)
(* and logged, the parameters are bound, the body is evaluated in the call     *)
(* frame and its value checked against return_type (None: no check)            *)
CallBody(callee, params, body, return_type, parent, site, st) ==
    LET st1 == NewFrame(st, parent)
        call_frame == Len(st.frames) + 1
        Body(b) ==
            IF b.err # "none" THEN b
            ELSE Checked(return_type, eval_expression(body, call_frame, b.st))
    IN
    IF Len(params) # Len(site.arguments) THEN Throw(st1, "RuntimeTypeError")
    ELSE Body(BindParams(params, site.arguments, site.frame, call_frame,
                [st1 EXCEPT !.calls = Append(@,
                    [frame |-> call_frame, closure |-> site.closure,
                     caller |-> site.frame, callee |-> callee])]))

(* the FunctionCall case *)
EvalFunctionCall(node, frame, st0) ==
    IF st0.fuel = 0 THEN Throw(st0, "OutOfFuel")
    ELSE
    LET Builtin(fm, args) ==
            IF args.err # "none" THEN args
            ELSE LET Outcome(r) ==
                        IF r.err # "none" THEN Throw(args.st, r.err)
                        ELSE Return(args.st, r.val)
                 IN  Outcome(call_builtin(fm["pyfunc"], args.val, args.st.numpy))
        Call(fn, fm) ==
            IF "builtin" \in DOMAIN fm /\ fm["builtin"]
            THEN Builtin(fm, EvalAll(node.arguments, frame, fn.st))
            ELSE IF node.function.kind = "VarRef"
                    /\ node.function.name \in DOMAIN fn.st.functions
            THEN \* FunctionDef case: Frame(parent=frame), the caller's frame
                 CallBody("FunctionDef",
                          fn.st.functions[node.function.name].params,
                          fn.st.functions[node.function.name].body,
                          fn.st.functions[node.function.name].return_type,
                          FunctionDefCallParent(
                              IF "closure" \in DOMAIN fm THEN fm["closure"] ELSE 0, frame),
                          [arguments |-> node.arguments, frame |-> frame,
                           closure |-> IF "closure" \in DOMAIN fm THEN fm["closure"] ELSE 0],
                          fn.st)
            ELSE IF "node" \in DOMAIN fm /\ ~IsNone(fm["node"])
            THEN \* lambda closure case: Frame(parent=closure)
                 IF "params" \notin DOMAIN fm THEN Throw(fn.st, "KeyError")
                 ELSE IF Len(fm["params"]) # Len(node.arguments)
                 THEN Throw(fn.st, "RuntimeTypeError")
                 ELSE CallBody("LambdaLiteral", fm["params"], fm["node"].body,
                               fm["return_type"],
                               LambdaCallParent(fm["closure"], frame),
                               [arguments |-> node.arguments, frame |-> frame,
                                closure |-> fm["closure"]],
                               fn.st)
            ELSE Throw(fn.st, "RuntimeTypeError")
        Callee(fn) ==
            IF fn.err # "none" THEN fn
            ELSE IF ~fn.val.is_function THEN Throw(fn.st, "RuntimeTypeError")
            ELSE Call(fn, IF fn.val.func_meta = None THEN EmptyDict ELSE fn.val.func_meta)
    IN  Callee(eval_expression(node.function, frame, [st0 EXCEPT !.fuel = @ - 1]))

(* the ArrayLiteral case once the elements are evaluated *)
ArrayValue(e, np) ==
    IF e.err # "none" THEN e
    ELSE LET Wrap(items) ==
                IF items.err # "none" THEN Throw(e.st, items.err)
                ELSE \* shape_of_array returns a tuple, never a list, so dim stays 0
                     Return(e.st, RuntimeValue(items.val, Type(RecordType("array"), 0),
                                               shape_of_array(items.val, np), FALSE, None))
             AsArray(list) == IF np THEN np_array(list) ELSE Ok(list)
         IN  Wrap(AsArray(PyList([i \in 1..Len(e.val) |-> e.val[i].value])))

eval_expression(node, frame, st) ==
    CASE node.kind = "PrimitiveLiteral" -> Return(st, PlainValue(node.value, None))
      [] node.kind = "ArrayLiteral" -> ArrayValue(EvalAll(node.value, frame, st), st.numpy)
      [] node.kind = "VarRef" ->
            LET Found(r) == IF r.err # "none" THEN Throw(st, r.err) ELSE Return(st, r.val)
            IN  Found(lookup(st.frames, frame, node.name))
      [] node.kind = "LambdaLiteral" -> Return(st, LambdaValue(node, frame))
      [] node.kind = "FunctionCall" -> EvalFunctionCall(node, frame, st)
      [] node.kind = "OperatorCall" ->
            LET Outcome(ops, r) ==
                    IF r.err # "none" THEN Throw(ops.st, r.err) ELSE Return(ops.st, r.val)
                Apply(ops) ==
                    IF ops.err # "none" THEN ops
                    ELSE Outcome(ops, ApplyOperator(node.operator, ops.val, st.numpy))
            IN  Apply(EvalAll(node.operands, frame, st))
      [] node.kind = "Block" ->
            ExecBlock(node.statements, BlockFrame(Len(st.frames) + 1, frame), None,
                      NewFrame(st, frame))
      [] node.kind = "IfExpr" ->
            LET Branch(cond, t) ==
                    IF t.err # "none" THEN Throw(cond.st, t.err)
                    ELSE eval_expression(IF t.val THEN node.then_expr ELSE node.else_expr,
                                         frame, cond.st)
                Condition(cond) ==
                    IF cond.err # "none" THEN cond ELSE Branch(cond, Truthy(cond.val.value))
            IN  Condition(eval_expression(node.condition, frame, st))
      [] node.kind \in {"RecordLiteral", "FieldRef"} -> Throw(st, "Unmodelled")
      [] OTHER -> Throw(st, "RuntimeTypeError")

(* the VarDecl binding shared by _register_declarations, run and DeclStmt:     *)
(* the initializer is evaluated and checked before the name is defined         *)
DeclareVar(decl, frame, st) ==
    IF IsNone(decl.initializer)
    THEN Return([st EXCEPT !.frames = define(st.frames, frame, decl.name,
                                             PlainValue(None, decl.type))], None)
    ELSE LET Define(rv) ==
                IF rv.err # "none" THEN rv
                ELSE Return([rv.st EXCEPT !.frames =
                                define(rv.st.frames, frame, decl.name, rv.val)], None)
         IN  Define(Checked(decl.type, eval_expression(decl.initializer, frame, st)))

(* only the current frame is searched, never its parents *)
HoldingFrameCurrentOnly(fs, target, name) ==
    IF target # 0 /\ name \in DOMAIN fs[target].vars THEN target ELSE 0

(* the frame on the parent chain of `frame` that holds name, 0 if none does *)
RECURSIVE HoldingFrame(_, _, _)
HoldingFrame(fs, target, name) ==
    IF target = 0 THEN 0
    ELSE IF name \in DOMAIN fs[target].vars THEN target
    ELSE HoldingFrame(fs, fs[target].parent, name)

exec_statement(node, frame, st) ==
    CASE node.kind = "ExprStmt" -> eval_expression(node.expression, frame, st)
      [] node.kind = "DeclStmt" ->
            IF node.declaration.kind = "VarDecl" THEN DeclareVar(node.declaration, frame, st)
            ELSE IF node.declaration.kind = "FunctionDef"
            THEN Return([st EXCEPT !.frames =
                            define(st.frames, frame, node.declaration.name,
                                   FunctionDefValue(node.declaration, frame))], None)
            ELSE Throw(st, "RuntimeTypeError")
      [] node.kind = "Assignment" ->
            LET Store(r, target) ==
                    Return([r.st EXCEPT !.frames =
                                define(r.st.frames, IF target = 0 THEN frame ELSE target,
                                       node.lvalue.name, r.val)], None)
                Assign(r) ==
                    IF r.err # "none" THEN r
                    ELSE IF node.lvalue.kind = "VarRef"
                    THEN Store(r, HoldingFrame(r.st.frames, frame, node.lvalue.name))
                    ELSE IF node.lvalue.kind = "FieldRef" THEN Throw(r.st, "Unmodelled")
                    ELSE Throw(r.st, "RuntimeTypeError")
            IN  Assign(eval_expression(node.rvalue, frame, st))
      [] node.kind = "WhileLoop" -> WhileIterations(node, frame, st)
      [] OTHER -> Throw(st, "RuntimeTypeError")


-----------------------------------------------------------------------------
(* src/interpreter/interpreter.py: Interpreter.__init__, _register_declarations, run *)

GlobalFrame == 1

RECURSIVE register_declarations(_, _)
register_declarations(decls, st) ==
    IF Len(decls) = 0 THEN Return(st, None)
    ELSE
    LET Rest(r) == IF r.err # "none" THEN r ELSE register_declarations(Tail(decls), r.st) IN
    CASE decls[1].kind = "FunctionDef" ->
            register_declarations(Tail(decls),
                [st EXCEPT !.functions = DictSet(st.functions, decls[1].name, decls[1])])
      [] decls[1].kind = "VarDecl" -> Rest(DeclareVar(decls[1], GlobalFrame, st))
      [] decls[1].kind = "RecordTypeDecl" -> register_declarations(Tail(decls), st)
      [] OTHER -> Throw(st, "RuntimeTypeError")

(* Interpreter(program): the global frame with the builtins, then the declarations *)
Interpreter(program, np) ==
    register_declarations(program.declarations,
        [frames |-> <<[vars |-> [n \in BuiltinNames |-> BuiltinValue(n)], parent |-> 0]>>,
         functions |-> EmptyDict, calls |-> <<>>, numpy |-> np, fuel |-> MaxFuel])

RECURSIVE RunDeclarations(_, _)
(* the loop of run() *)
RunDeclarations(decls, st) ==
    IF Len(decls) = 0 THEN Return(st, None)
    ELSE
    LET Rest(r) == IF r.err # "none" THEN r ELSE RunDeclarations(Tail(decls), r.st) IN
    CASE decls[1].kind = "FunctionDef" ->
            RunDeclarations(Tail(decls),
                [st EXCEPT !.frames = define(st.frames, GlobalFrame, decls[1].name,
                                             FunctionDefValue(decls[1], GlobalFrame)),
                           !.functions = DictSet(st.functions, decls[1].name, decls[1])])
      [] decls[1].kind = "VarDecl" ->
            IF decls[1].name \in DOMAIN st.frames[GlobalFrame].vars
            THEN RunDeclarations(Tail(decls), st)
            ELSE Rest(DeclareVar(decls[1], GlobalFrame, st))
      [] decls[1].kind = "RecordTypeDecl" -> RunDeclarations(Tail(decls), st)
      [] OTHER -> Throw(st, "RuntimeTypeError")

-----------------------------------------------------------------------------
(* src/typeinference/type_annotator.py                                         *)
(*                                                                             *)
(* The annotator sets `type` on the nodes in place and updates env in place;   *)
(* here every function returns [err, node, env]: the node as it is left and    *)
(* the environment as it is left.                                              *)

Annotated(node, env) == [err |-> "none", node |-> node, env |-> env]

AnnotationError(e, node, env) == [err |-> e, node |-> node, env |-> env]

(* aliasing instead of copying: what is bound in the local environment is     *)
(* bound in the enclosing one                                                  *)
EnclosingEnvAliased(env, local_env) == local_env

(* local_env = env.copy(): the enclosing environment after the construct that  *)
(* worked on local_env                                                         *)
EnclosingEnv(env, local_env) == env

(* local_env = env.copy(); for p in params: local_env[p.name] = p.type *)
RECURSIVE WithParams(_, _)
WithParams(env, params) ==
    IF Len(params) = 0 THEN env
    ELSE WithParams(DictSet(env, params[1].name, params[1].type), Tail(params))

RECURSIVE annotate_expression(_, _), annotate_statement(_, _), annotate_declaration(_, _),
          AnnotateAll(_, _), AnnotateStatements(_, _), AnnotateChildren(_, _)

(* for v in exprs: annotate_expression(v, env) *)
AnnotateAll(exprs, env) ==
    IF Len(exprs) = 0 THEN Annotated(<<>>, env)
    ELSE LET Rest(h) ==
                IF h.err # "none" THEN AnnotationError(h.err, <<h.node>> \o Tail(exprs), env)
                ELSE LET Join(t) == [err |-> t.err, node |-> <<h.node>> \o t.node, env |-> env]
                     IN  Join(AnnotateAll(Tail(exprs), env))
         IN  Rest(annotate_expression(exprs[1], env))

(* for s in statements: annotate_statement(s, local_env) *)
AnnotateStatements(stmts, local_env) ==
    IF Len(stmts) = 0 THEN Annotated(<<>>, local_env)
    ELSE LET Rest(h) ==
                IF h.err # "none" THEN AnnotationError(h.err, <<h.node>> \o Tail(stmts), h.env)
                ELSE LET Join(t) == [err |-> t.err, node |-> <<h.node>> \o t.node, env |-> t.env]
                     IN  Join(AnnotateStatements(Tail(stmts), h.env))
         IN  Rest(annotate_statement(stmts[1], local_env))

(* the children of expr annotated, as [err, node, env]: env is the environment *)
(* the children were annotated in, as they left it                             *)
AnnotateChildren(expr, env) ==
    CASE expr.kind = "ArrayLiteral" ->
            LET Set(v) == [err |-> v.err, node |-> [expr EXCEPT !.value = v.node], env |-> env]
            IN  Set(AnnotateAll(expr.value, env))
      [] expr.kind = "LambdaLiteral" ->
            LET Set(b) == [err |-> b.err, node |-> [expr EXCEPT !.body = b.node], env |-> b.env]
            IN  Set(annotate_expression(expr.body, WithParams(env, expr.params)))
      [] expr.kind = "FunctionCall" ->
            LET Arguments(f) ==
                    IF f.err # "none"
                    THEN [err |-> f.err, node |-> [expr EXCEPT !.function = f.node], env |-> env]
                    ELSE LET Set(a) ==
                                [err |-> a.err,
                                 node |-> [expr EXCEPT !.function = f.node,
                                                       !.arguments = a.node],
                                 env |-> env]
                         IN  Set(AnnotateAll(expr.arguments, env))
            IN  Arguments(annotate_expression(expr.function, env))
      [] expr.kind = "OperatorCall" ->
            LET Set(o) == [err |-> o.err, node |-> [expr EXCEPT !.operands = o.node], env |-> env]
            IN  Set(AnnotateAll(expr.operands, env))
      [] expr.kind = "IfExpr" ->
            LET Set(parts) ==
                    [err |-> parts.err,
                     node |-> [expr EXCEPT !.condition = parts.node[1],
                                           !.then_expr = parts.node[2],
                                           !.else_expr = parts.node[3]],
                     env |-> env]
            IN  Set(AnnotateAll(<<expr.condition, expr.then_expr, expr.else_expr>>, env))
      [] expr.kind = "Block" ->
            LET Set(s) == [err |-> s.err, node |-> [expr EXCEPT !.statements = s.node],
                           env |-> s.env]
            IN  Set(AnnotateStatements(expr.statements, env))
      [] OTHER -> [err |-> "none", node |-> expr, env |-> env]

annotate_expression(expr, env) ==
    LET Attach(children) ==
            IF children.err # "none" THEN AnnotationError(children.err, children.node, env)
            ELSE LET SetType(t) ==
                        IF t.err # "none" THEN AnnotationError(t.err, children.node, env)
                        ELSE Annotated([children.node EXCEPT !.type = t.val],
                                       EnclosingEnv(env, children.env))
                 IN  SetType(infer_expression_type(children.node, env))
    IN  Attach(AnnotateChildren(expr, env))

annotate_statement(stmt, env) ==
    CASE stmt.kind = "Assignment" ->
            LET Set(sides) ==
                    [err |-> sides.err,
                     node |-> [stmt EXCEPT !.lvalue = sides.node[1], !.rvalue = sides.node[2]],
                     env |-> env]
            IN  Set(AnnotateAll(<<stmt.lvalue, stmt.rvalue>>, env))
      [] stmt.kind = "WhileLoop" ->
            LET Body(c) ==
                    IF c.err # "none"
                    THEN AnnotationError(c.err, [stmt EXCEPT !.condition = c.node], env)
                    ELSE LET Set(b) ==
                                [err |-> b.err,
                                 node |-> [stmt EXCEPT !.condition = c.node, !.body = b.node],
                                 env |-> b.env]
                         IN  Set(annotate_statement(stmt.body, env))
            IN  Body(annotate_expression(stmt.condition, env))
      [] stmt.kind = "DeclStmt" ->
            LET Set(d) ==
                    [err |-> d.err, node |-> [stmt EXCEPT !.declaration = d.node],
                     env |-> d.env]
            IN  Set(annotate_declaration(stmt.declaration, env))
      [] stmt.kind = "ExprStmt" ->
            LET Set(e) ==
                    [err |-> e.err, node |-> [stmt EXCEPT !.expression = e.node], env |-> env]
            IN  Set(annotate_expression(stmt.expression, env))
      [] OTHER -> Annotated(stmt, env)

(* the declared type compared with the inferred one by base type only *)
BindVarDeclBaseOnly(declaration, i, inferred_type, env) ==
    LET declared_type == declaration.type
        d == [declaration EXCEPT !.initializer = i.node]
    IN
    IF inferred_type.err # "none" THEN AnnotationError(inferred_type.err, d, env)
    ELSE IF ~IsNone(declared_type) /\ inferred_type.val.base_type # declared_type.base_type
    THEN AnnotationError("TypeError", d, env)
    ELSE LET var_type == IF ~IsNone(declared_type) THEN declared_type
                         ELSE inferred_type.val
         IN  Annotated([d EXCEPT !.type = var_type],
                       DictSet(env, declaration.name, var_type))

(* the VarDecl case once the initializer is annotated (i) and its type inferred *)
BindVarDecl(declaration, i, inferred_type, env) ==
    LET declared_type == declaration.type
        d == [declaration EXCEPT !.initializer = i.node]
    IN
    IF inferred_type.err # "none" THEN AnnotationError(inferred_type.err, d, env)
    ELSE IF ~IsNone(declared_type)
            /\ (inferred_type.val.base_type # declared_type.base_type
                \/ inferred_type.val.dimension # declared_type.dimension)
    THEN AnnotationError("TypeError", d, env)
    ELSE LET var_type == IF ~IsNone(declared_type) THEN declared_type
                         ELSE inferred_type.val
         IN  Annotated([d EXCEPT !.type = var_type],
                       DictSet(env, declaration.name, var_type))

annotate_declaration(declaration, env) ==
    CASE declaration.kind = "VarDecl" ->
            IF IsNone(declaration.initializer)
            THEN Annotated(declaration, DictSet(env, declaration.name, declaration.type))
            ELSE
            LET Infer(i) ==
                    IF i.err # "none"
                    THEN AnnotationError(i.err, [declaration EXCEPT !.initializer = i.node], env)
                    ELSE BindVarDecl(declaration, i, infer_expression_type(i.node, env), env)
            IN  Infer(annotate_expression(declaration.initializer, env))
      [] declaration.kind = "FunctionDef" ->
            LET fn_type == Type(FunctionType(
                                [i \in 1..Len(declaration.params) |-> declaration.params[i].type],
                                declaration.return_type), 0)
                env1 == DictSet(env, declaration.name, fn_type)
                Set(b) ==
                    IF b.err # "none"
                    THEN AnnotationError(b.err, [declaration EXCEPT !.body = b.node], env1)
                    ELSE Annotated([declaration EXCEPT !.body = b.node, !.type = fn_type],
                                   EnclosingEnv(env1, b.env))
            IN  Set(annotate_expression(declaration.body, WithParams(env1, declaration.params)))
      [] declaration.kind = "RecordTypeDecl" ->
            LET t == Type(RecordType(declaration.name), 0) IN
            Annotated([declaration EXCEPT !.type = t], DictSet(env, declaration.name, t))
      [] OTHER -> Annotated(declaration, env)

(* for decl in program.declarations: annotate_declaration(decl, env) *)
RECURSIVE AnnotateDeclarations(_, _)
AnnotateDeclarations(decls, env) ==
    IF Len(decls) = 0 THEN Annotated(<<>>, env)
    ELSE LET Rest(h) ==
                IF h.err # "none" THEN AnnotationError(h.err, <<h.node>> \o Tail(decls), h.env)
                ELSE LET Join(t) == [err |-> t.err, node |-> <<h.node>> \o t.node, env |-> t.env]
                     IN  Join(AnnotateDeclarations(Tail(decls), h.env))
         IN  Rest(annotate_declaration(decls[1], env))

type_annotate_program(program, env) ==
    LET Set(d) == [err |-> d.err, node |-> [program EXCEPT !.declarations = d.node],
                   env |-> d.env]
    IN  Set(AnnotateDeclarations(program.declarations, env))

-----------------------------------------------------------------------------
(* Driver of the interpreter: Interpreter(program), optionally run(), then one *)
(* eval_expression or exec_statement on the global frame, as the tests in      *)
(* src/interpreter/test.py do.                                                 *)

TestInts == {5, 10, 99}

Lit(n) == PrimitiveLiteral(PyInt(n))

Param(name, type) == VarDecl(name, type, FALSE, None)

XPlusY == OperatorCall("+", <<VarRef("x"), VarRef("y")>>)

(* { x = lx; f(a) }: a call of f from a scope that binds its own x *)
CallUnderShadow(lx, a) ==
    Block(<<DeclStmt(VarDecl("x", IntT, TRUE, Lit(lx))),
            ExprStmt(FunctionCall(VarRef("f"), <<Lit(a)>>))>>)

(* f(y) = x + y defined where x = gx and called where another x = lx is in     *)
(* scope: f a top-level FunctionDef, a lambda bound at top level, or a lambda  *)
(* bound in an enclosing block                                                 *)
ScopeInputs ==
    { [family |-> "scope", variant |-> "FunctionDef", gx |-> gx, lx |-> lx, a |-> a,
       program |-> Program(<<VarDecl("x", IntT, TRUE, Lit(gx)),
                             FunctionDef("f", <<Param("y", IntT)>>, IntT, XPlusY)>>),
       test |-> CallUnderShadow(lx, a)] : gx \in TestInts, lx \in TestInts, a \in TestInts }
    \cup
    { [family |-> "scope", variant |-> "LambdaGlobal", gx |-> gx, lx |-> lx, a |-> a,
       program |-> Program(<<VarDecl("x", IntT, TRUE, Lit(gx)),
                             VarDecl("f", None, FALSE,
                                     LambdaLiteral(<<Param("y", IntT)>>, XPlusY))>>),
       test |-> CallUnderShadow(lx, a)] : gx \in TestInts, lx \in TestInts, a \in TestInts }
    \cup
    { [family |-> "scope", variant |-> "LambdaBlock", gx |-> gx, lx |-> lx, a |-> a,
       program |-> Program(<<>>),
       test |-> Block(<<DeclStmt(VarDecl("x", IntT, TRUE, Lit(gx))),
                        DeclStmt(VarDecl("f", None, FALSE,
                                         LambdaLiteral(<<Param("y", IntT)>>, XPlusY))),
                        ExprStmt(CallUnderShadow(lx, a))>>)] :
            gx \in TestInts, lx \in TestInts, a \in TestInts }

(* Literals the bindings and the operators are exercised on *)
IntVec == ArrayLiteral(<<Lit(1), Lit(2)>>)

IntVec3 == ArrayLiteral(<<Lit(1), Lit(2), Lit(3)>>)

IntRow == ArrayLiteral(<<IntVec>>)

IntMat == ArrayLiteral(<<IntVec, ArrayLiteral(<<Lit(3), Lit(4)>>)>>)

FloatLit(hundredths) == PrimitiveLiteral(PyFloat(hundredths))

FloatVec == ArrayLiteral(<<FloatLit(100), FloatLit(250)>>)

BoolLit(b) == PrimitiveLiteral(PyBool(b))

(* Declared types and initial values of the bindings *)
DeclaredTypes ==
    {IntT, FloatT, BoolT, Type(PrimitiveType("int"), 1), Type(PrimitiveType("int"), 2),
     Type(RecordType("array"), 1), Type(RecordType("array"), 2)}

BoundValues == {Lit(5), FloatLit(314), BoolLit(TRUE), IntVec, IntMat}

(* a value bound to the name v against a declared type: by a top-level VarDecl, *)
(* by a DeclStmt, as the parameter of a call, as the result of a call          *)
BindInputs ==
    { [family |-> "bind", variant |-> "VarDecl", declared |-> d, value |-> e,
       program |-> Program(<<VarDecl("v", d, TRUE, e)>>),
       test |-> VarRef("v")] : d \in DeclaredTypes, e \in BoundValues }
    \cup
    { [family |-> "bind", variant |-> "DeclStmt", declared |-> d, value |-> e,
       program |-> Program(<<>>),
       test |-> DeclStmt(VarDecl("v", d, TRUE, e))] : d \in DeclaredTypes, e \in BoundValues }
    \cup
    { [family |-> "bind", variant |-> "Parameter", declared |-> d, value |-> e,
       program |-> Program(<<FunctionDef("f", <<Param("v", d)>>, None, Lit(0))>>),
       test |-> FunctionCall(VarRef("f"), <<e>>)] : d \in DeclaredTypes, e \in BoundValues }
    \cup
    { [family |-> "bind", variant |-> "Return", declared |-> d, value |-> e,
       program |-> Program(<<FunctionDef("f", <<>>, d, e)>>),
       test |-> FunctionCall(VarRef("f"), <<>>)] : d \in DeclaredTypes, e \in BoundValues }

DeclX(n) == DeclStmt(VarDecl("x", IntT, TRUE, Lit(n)))

(* x = a executed in a Block nested in a Block, x being declared or not at top *)
(* level (as 1), in the outer Block (as 2) and in the inner Block (as 3); and  *)
(* x = a executed on the global frame                                          *)
AssignInputs ==
    { [family |-> "assign", variant |-> "Nested", a |-> a,
       inGlobal |-> g, inOuter |-> o, inInner |-> i,
       program |-> Program(IF g THEN <<VarDecl("x", IntT, TRUE, Lit(1))>> ELSE <<>>),
       test |-> Block((IF o THEN <<DeclX(2)>> ELSE <<>>) \o
                      <<ExprStmt(Block((IF i THEN <<DeclX(3)>> ELSE <<>>) \o
                                       <<Assignment(VarRef("x"), Lit(a)),
                                         ExprStmt(VarRef("x"))>>))>>)] :
            g \in BOOLEAN, o \in BOOLEAN, i \in BOOLEAN, a \in TestInts }
    \cup
    { [family |-> "assign", variant |-> "Global", a |-> a,
       inGlobal |-> g, inOuter |-> FALSE, inInner |-> FALSE,
       program |-> Program(IF g THEN <<VarDecl("x", IntT, TRUE, Lit(1))>> ELSE <<>>),
       test |-> Assignment(VarRef("x"), Lit(a))] : g \in BOOLEAN, a \in TestInts }

MaxFact == 5

(* if n == 0 then 1 else n * fact(n - 1) *)
FactBody ==
    IfExpr(OperatorCall("==", <<VarRef("n"), Lit(0)>>), Lit(1),
           OperatorCall("*", <<VarRef("n"),
                FunctionCall(VarRef("fact"), <<OperatorCall("-", <<VarRef("n"), Lit(1)>>)>>)>>))

(* int fact(int n) { ... }  fact(n) *)
FactInputs ==
    { [family |-> "fact", n |-> n,
       program |-> Program(<<FunctionDef("fact", <<Param("n", IntT)>>, IntT, FactBody)>>),
       test |-> FunctionCall(VarRef("fact"), <<Lit(n)>>)] : n \in 0..MaxFact }

LoopCond == OperatorCall("<", <<VarRef("i"), Lit(3)>>)

Increment == Assignment(VarRef("i"), OperatorCall("+", <<VarRef("i"), Lit(1)>>))

(* int i = start; while (i < 3) body, the body being the statement i = i + 1   *)
(* or the Block { i = i + 1; }                                                 *)
WhileInputs ==
    { [family |-> "while", variant |-> v, start |-> i0,
       program |-> Program(<<VarDecl("i", IntT, TRUE, Lit(i0))>>),
       test |-> WhileLoop(LoopCond, IF v = "Statement" THEN Increment
                                    ELSE Block(<<Increment>>))] :
            v \in {"Statement", "Block"}, i0 \in 0..4 }

(* int x = gx; int f(int y) = x + y; int b = init; the initializer of b reads  *)
(* the earlier x or calls the earlier f                                        *)
OrderInputs ==
    { [family |-> "order", variant |-> v, gx |-> gx, a |-> a,
       program |-> Program(<<VarDecl("x", IntT, TRUE, Lit(gx)),
                             FunctionDef("f", <<Param("y", IntT)>>, IntT, XPlusY),
                             VarDecl("b", IntT, TRUE,
                                IF v = "ReadsVar" THEN OperatorCall("+", <<VarRef("x"), Lit(a)>>)
                                ELSE FunctionCall(VarRef("f"), <<Lit(a)>>))>>),
       test |-> VarRef("b")] :
            v \in {"ReadsVar", "CallsFunction"}, gx \in TestInts, a \in TestInts }

(* expressions whose evaluation fails: an unbound name, a call of a            *)
(* non-function, calls of wrong arity, an index out of range, operators on     *)
(* operands they are not defined for, a division by zero                       *)
FailureInputs ==
    { [family |-> "failure", program |-> Program(<<FunctionDef("f", <<Param("y", IntT)>>, IntT,
                                                               VarRef("y"))>>),
       test |-> e] :
        e \in { VarRef("nope"),
                FunctionCall(Lit(1), <<>>),
                FunctionCall(VarRef("f"), <<>>),
                FunctionCall(LambdaLiteral(<<Param("y", IntT)>>, VarRef("y")), <<Lit(1), Lit(2)>>),
                OperatorCall("index", <<IntVec, Lit(5)>>),
                OperatorCall("-", <<IntVec, Lit(1)>>),
                OperatorCall("-", <<IntVec>>),
                OperatorCall("+", <<Lit(1), Lit(2), Lit(3)>>),
                OperatorCall("/", <<Lit(1), Lit(0)>>) } }

MaxExtent == 2

(* zeros(dims) and ones(dims) for the array literal dims *)
BuiltinInputs ==
    { [family |-> "builtin", name |-> f, dims |-> dims, program |-> Program(<<>>),
       test |-> FunctionCall(VarRef(f), <<ArrayLiteral([k \in 1..Len(dims) |-> Lit(dims[k])])>>)] :
        f \in {"zeros", "ones"}, dims \in UNION { [1..r -> 1..MaxExtent] : r \in 1..MaxRank } }

(* int f(int y) = y + 1 at top level; the call f(a), the same call under a     *)
(* local f bound to (int y) => y * 2, the call of a FunctionDef g declared in  *)
(* the Block, and the call through a variable h that f was assigned to         *)
IncrementDef(name) ==
    FunctionDef(name, <<Param("y", IntT)>>, IntT, OperatorCall("+", <<VarRef("y"), Lit(1)>>))

Doubling == LambdaLiteral(<<Param("y", IntT)>>, OperatorCall("*", <<VarRef("y"), Lit(2)>>))

CalleeTest(variant, a) ==
    CASE variant = "TopLevel" -> FunctionCall(VarRef("f"), <<Lit(a)>>)
      [] variant = "Shadow" ->
            Block(<<DeclStmt(VarDecl("f", None, TRUE, Doubling)),
                    ExprStmt(FunctionCall(VarRef("f"), <<Lit(a)>>))>>)
      [] variant = "Nested" ->
            Block(<<DeclStmt(IncrementDef("g")),
                    ExprStmt(FunctionCall(VarRef("g"), <<Lit(a)>>))>>)
      [] variant = "Alias" ->
            Block(<<DeclStmt(VarDecl("h", None, TRUE, VarRef("f"))),
                    ExprStmt(FunctionCall(VarRef("h"), <<Lit(a)>>))>>)

CalleeInputs ==
    { [family |-> "callee", variant |-> v, a |-> a,
       program |-> Program(<<IncrementDef("f")>>), test |-> CalleeTest(v, a)] :
        v \in {"TopLevel", "Shadow", "Nested", "Alias"}, a \in TestInts }

InterpreterInputs ==
    ScopeInputs \cup BindInputs \cup AssignInputs \cup FactInputs \cup WhileInputs
        \cup OrderInputs \cup FailureInputs \cup BuiltinInputs \cup CalleeInputs

(* a binary operator applied to two literals *)
Operators == {"+", "-", "*", "/", "%", "<", "<=", ">", ">=", "==", "!="}

Operands == {Lit(3), Lit(4), FloatLit(400), BoolLit(TRUE), IntVec, IntVec3, IntRow, IntMat,
             FloatVec}

MaxBlockLen == 3

(* the operator of the lambda (int y) => y op 1, or y / 0 for `/`, whose call  *)
(* fails                                                                       *)
LambdaBodies == {"+", "*", "<", "/"}

(* well-typed statements of a Block that declares `int x` first: expression    *)
(* statements of three types, an assignment, a declaration, a loop that never  *)
(* runs                                                                        *)
TypedStatements ==
    { ExprStmt(Lit(7)), ExprStmt(FloatLit(250)), ExprStmt(VarRef("x")),
      Assignment(VarRef("x"), Lit(2)),
      DeclStmt(VarDecl("y", BoolT, TRUE, BoolLit(TRUE))),
      WhileLoop(OperatorCall("<", <<VarRef("x"), Lit(0)>>), Block(<<>>)) }

(* the logical operators as the interpreter spells them and as the parser's    *)
(* precedence table spells them                                                *)
LogicalOperators == {"and", "or", "&&", "||"}

LogicalOperands == {BoolLit(TRUE), BoolLit(FALSE), Lit(3), IntVec}

OperatorInputs ==
    { [family |-> "operator", program |-> Program(<<>>),
       test |-> OperatorCall(op, <<a, b>>)] : op \in Operators, a \in Operands, b \in Operands }
    \cup
    { [family |-> "logical", program |-> Program(<<>>),
       test |-> OperatorCall(op, <<a, b>>)] :
        op \in LogicalOperators, a \in LogicalOperands, b \in LogicalOperands }
    \cup
    { [family |-> "logical", program |-> Program(<<>>),
       test |-> OperatorCall("not", <<a>>)] : a \in LogicalOperands }
    \cup
    { [family |-> "block", program |-> Program(<<>>), statements |-> stmts,
       test |-> Block(<<DeclX(0)>> \o stmts)] :
        stmts \in UNION { [1..n -> TypedStatements] : n \in 0..MaxBlockLen } }
    \cup
    { [family |-> "lambda", program |-> Program(<<>>), body |-> op, a |-> a,
       test |-> FunctionCall(LambdaLiteral(<<Param("y", IntT)>>,
                                           OperatorCall(op, <<VarRef("y"),
                                                Lit(IF op = "/" THEN 0 ELSE 1)>>)),
                             <<Lit(a)>>)] :
        op \in LambdaBodies, a \in TestInts }

InterpreterState ==
    [frames |-> frames, functions |-> functions, calls |-> calls, numpy |-> numpy,
     fuel |-> MaxFuel]

(* the interpreter's variables after a call that ended as r *)
Commit(r) ==
    /\ frames' = r.st.frames
    /\ functions' = r.st.functions
    /\ calls' = r.st.calls
    /\ result' = [err |-> r.err, val |-> r.val]

(* the tree handed to the interpreter: the annotated one once the annotator ran *)
Tree == IF IsNone(tast) THEN input.test ELSE tast

Fresh ==
    /\ phase = "new"
    /\ frames = <<>>
    /\ functions = EmptyDict
    /\ calls = <<>>
    /\ result = NoResult
    /\ inferred = NoResult
    /\ tast = None
    /\ type_env = EmptyDict
    /\ tokens = <<>>
    /\ pos = 0

Init ==
    /\ mode = "interpret"
    /\ input \in InterpreterInputs
    /\ numpy \in BOOLEAN
    /\ Fresh

Construct ==
    /\ mode \in {"interpret", "operator"}
    /\ phase = "new"
    /\ LET r == Interpreter(input.program, numpy) IN
        /\ Commit(r)
        /\ phase' = IF r.err = "none" THEN "constructed" ELSE "raised"
    /\ UNCHANGED <<tokens, pos, mode, input, numpy, inferred, tast, type_env>>

Run ==
    /\ mode = "interpret"
    /\ phase = "constructed"
    /\ LET r == RunDeclarations(input.program.declarations, InterpreterState) IN
        /\ Commit(r)
        /\ phase' = IF r.err = "none" THEN "ran" ELSE "raised"
    /\ UNCHANGED <<tokens, pos, mode, input, numpy, inferred, tast, type_env>>

EvalExpression ==
    /\ mode \in {"interpret", "operator"}
    /\ phase \in {"constructed", "ran"}
    /\ IsExpression(Tree)
    /\ Commit(eval_expression(Tree, GlobalFrame, InterpreterState))
    /\ phase' = "done"
    /\ UNCHANGED <<tokens, pos, mode, input, numpy, inferred, tast, type_env>>

ExecStatement ==
    /\ mode = "interpret"
    /\ phase \in {"constructed", "ran"}
    /\ ~IsExpression(Tree)
    /\ Commit(exec_statement(Tree, GlobalFrame, InterpreterState))
    /\ phase' = "done"
    /\ UNCHANGED <<tokens, pos, mode, input, numpy, inferred, tast, type_env>>

Next == Construct \/ Run \/ EvalExpression \/ ExecStatement

Spec == Init /\ [][Next]_vars

-----------------------------------------------------------------------------
(* Driver of annotator and interpreter on one OperatorCall: the expression is  *)
(* annotated in an empty environment (or not), then evaluated by a fresh       *)
(* interpreter.                                                                *)

OpInit ==
    /\ mode = "operator"
    /\ input \in OperatorInputs
    /\ numpy \in BOOLEAN
    /\ Fresh

AnnotateExpression ==
    /\ mode = "operator"
    /\ phase = "new"
    /\ inferred.err = "pending"
    /\ LET r == annotate_expression(input.test, EmptyDict) IN
        /\ tast' = r.node
        /\ type_env' = r.env
        /\ inferred' = [err |-> r.err, val |-> r.node.type]
    /\ UNCHANGED <<tokens, pos, mode, phase, input, numpy, frames, functions, calls, result>>

OpNext == AnnotateExpression \/ Construct \/ EvalExpression

SpecOp == OpInit /\ [][OpNext]_vars


-----------------------------------------------------------------------------
(* Driver of the annotator: type_annotate_program on a Program whose function  *)
(* main has a Block of statements as its body, and on a Program of one         *)
(* VarDecl.                                                                    *)

MaxStmts == 2

(* { int j = i; }: a Block that declares j and reads the enclosing i *)
InnerDecl == ExprStmt(Block(<<DeclStmt(VarDecl("j", IntT, TRUE, VarRef("i")))>>))

(* (int j) => j + i: a lambda whose parameter is j and which reads the enclosing i *)
LambdaOverJ ==
    ExprStmt(LambdaLiteral(<<Param("j", IntT)>>, OperatorCall("+", <<VarRef("j"), VarRef("i")>>)))

BlockStatements ==
    { DeclStmt(VarDecl("j", IntT, TRUE, Lit(0))),
      InnerDecl,
      LambdaOverJ,
      ExprStmt(VarRef("j")),
      ExprStmt(VarRef("p")),
      DeclStmt(VarDecl("k", None, FALSE, OperatorCall("*", <<VarRef("i"), Lit(2)>>))),
      DeclStmt(VarDecl("w", FloatT, TRUE, Lit(1))),
      Increment,
      Assignment(VarRef("i"), FloatLit(150)),
      WhileLoop(LoopCond, Block(<<Increment>>)),
      WhileLoop(LoopCond, Increment),
      WhileLoop(VarRef("i"), Block(<<Increment>>)),
      ExprStmt(IfExpr(LoopCond, VarRef("i"), Lit(0))),
      ExprStmt(IntVec) }

(* int i = 0; r main(int p) { stmts }  and  d v = e; *)
AnnotateInputs ==
    { [family |-> "function",
       program |-> Program(<<VarDecl("i", IntT, TRUE, Lit(0)),
                             FunctionDef("main", <<Param("p", IntT)>>, r,
                                         Block([n \in 1..Len(stmts) |-> stmts[n]]))>>)] :
        stmts \in UNION { [1..n -> BlockStatements] : n \in 1..MaxStmts },
        r \in {UnitT, IntT} }
    \cup
    { [family |-> "vardecl", declared |-> d, value |-> e,
       program |-> Program(<<VarDecl("v", d, TRUE, e)>>)] :
        d \in DeclaredTypes \cup {None}, e \in BoundValues }

AnnotateInit ==
    /\ mode = "annotate"
    /\ input \in AnnotateInputs
    /\ numpy = FALSE
    /\ Fresh

TypeAnnotateProgram ==
    /\ mode = "annotate"
    /\ phase = "new"
    /\ LET r == type_annotate_program(input.program, EmptyDict) IN
        /\ tast' = r.node
        /\ type_env' = r.env
        /\ inferred' = [err |-> r.err, val |-> None]
        /\ phase' = IF r.err = "none" THEN "annotated" ELSE "raised"
    /\ UNCHANGED <<tokens, pos, mode, input, numpy, frames, functions, calls, result>>

AnnotateNext == TypeAnnotateProgram

SpecAnnotate == AnnotateInit /\ [][AnnotateNext]_vars

-----------------------------------------------------------------------------
(* Lexical scope of user-defined functions                                     *)

IsScopeRun == mode = "interpret" /\ input.family = "scope"

ScopeCallReturned == IsScopeRun /\ phase = "done" /\ result.err = "none"

(* C1: whenever a user-defined function is called (a FunctionDef by name or a  *)
(* lambda closure), the parent of the call frame is the frame captured when    *)
(* the function value was created, never the caller's frame, so that the free  *)
(* variable x of the body x + y resolves in the defining scope although the    *)
(* calling frame binds x to another value.                                     *)
C1_CallFrameParentIsCapturedFrame ==
    IsScopeRun =>
        /\ \A i \in 1..Len(calls) : frames[calls[i].frame].parent = calls[i].closure
        /\ ScopeCallReturned => result.val.value = PyInt(input.gx + input.a)

(* C2: a lambda constructed where x = gx and called with the argument a from a *)
(* scope in which another binding x = lx is in effect returns gx + a (15 for   *)
(* x = 10, a = 5, lx = 99): its body resolves free names through the frame     *)
(* that was current at its construction.                                       *)
C2_LambdaResolvesInDefiningFrame ==
    (IsScopeRun /\ phase = "done" /\ input.variant \in {"LambdaGlobal", "LambdaBlock"}) =>
        /\ result.err = "none"
        /\ result.val.value = PyInt(input.gx + input.a)
        /\ \A i \in 1..Len(calls) :
                calls[i].callee = "LambdaLiteral" =>
                    frames[calls[i].frame].parent = calls[i].closure

C2_Witness ==
    /\ ScopeCallReturned
    /\ input.variant = "LambdaBlock"
    /\ input.gx = 10 /\ input.lx = 99 /\ input.a = 5
    /\ Len(calls) = 1 /\ calls[1].caller # calls[1].closure
    /\ result.val.value = PyInt(15)

-----------------------------------------------------------------------------
(* Operators: static rank against runtime rank, and base types of operands     *)

OperatorEvaluated == mode = "operator" /\ input.family = "operator" /\ phase = "done"

HasArrayOperand ==
    \E i \in 1..Len(input.test.operands) : input.test.operands[i].kind = "ArrayLiteral"

(* C7: when an OperatorCall that passed the annotator is evaluated on two      *)
(* operands of which at least one is an array, and the evaluation returns a    *)
(* value, the rank of the value's shape equals the dimension the annotator     *)
(* inferred for the OperatorCall, with the dense n-d arrays and with nested    *)
(* lists alike.                                                                *)
C7_RuntimeRankIsInferredDimension ==
    (OperatorEvaluated /\ inferred.err = "none" /\ HasArrayOperand /\ result.err = "none")
        => ShapeRank(result.val.shape) = inferred.val.dimension

(* the base type of the value of a scalar literal *)
ScalarBase(e) == IF e.kind = "PrimitiveLiteral" THEN e.value.kind ELSE "array"

MixedScalarOperands ==
    LET a == ScalarBase(input.test.operands[1])
        b == ScalarBase(input.test.operands[2])
    IN  a # b /\ {a, b} \in {{"int", "float"}, {"bool", "int"}}

(* C8: evaluating a binary OperatorCall whose operand values have different    *)
(* base types (an int and a float, or a bool and an int) ends in a runtime     *)
(* error and never in a promoted value.                                        *)
C8_MixedBaseTypesFail ==
    (OperatorEvaluated /\ MixedScalarOperands) => result.err = "RuntimeTypeError"

-----------------------------------------------------------------------------
(* Bindings against a declared Type                                            *)

(* the type of a literal's value: the base type of its scalars and its rank *)
RECURSIVE TypeOfLiteral(_)
TypeOfLiteral(e) ==
    IF e.kind = "ArrayLiteral"
    THEN LET t == TypeOfLiteral(e.value[1]) IN Type(t.base_type, t.dimension + 1)
    ELSE Type(PrimitiveType(e.value.kind), 0)

IsBinding == mode = "interpret" /\ input.family = "bind"

(* the binding was attempted *)
BindingAttempted ==
    /\ IsBinding
    /\ IF input.variant = "VarDecl" THEN phase \in {"constructed", "raised"}
       ELSE phase = "done"

(* the frame and the name the value is bound to; frame 0 when there is none *)
BindingFrame ==
    CASE input.variant \in {"VarDecl", "DeclStmt"} -> GlobalFrame
      [] input.variant = "Parameter" -> IF Len(calls) > 0 THEN calls[1].frame ELSE 0
      [] OTHER -> 0

NameDefined ==
    /\ BindingFrame # 0
    /\ BindingFrame <= Len(frames)
    /\ "v" \in DOMAIN frames[BindingFrame].vars

(* C9: a value is bound against a declared Type (by a VarDecl initializer, to  *)
(* a parameter, as the result of a function) only if its type has the          *)
(* declared base type and the declared dimension; otherwise RuntimeTypeError   *)
(* is raised and the name is not defined in the frame.                         *)
C9_BindingNeedsBaseAndDimension ==
    BindingAttempted =>
        IF    TypeOfLiteral(input.value).base_type = input.declared.base_type
           /\ TypeOfLiteral(input.value).dimension = input.declared.dimension
        THEN TRUE
        ELSE result.err = "RuntimeTypeError" /\ ~NameDefined

-----------------------------------------------------------------------------
(* The typed AST                                                               *)

RECURSIVE ExprTyped(_), StmtTyped(_), DeclTyped(_)

(* the expression and every expression below it carry a type *)
ExprTyped(e) ==
    /\ ~IsNone(e.type)
    /\ CASE e.kind = "ArrayLiteral" -> \A i \in 1..Len(e.value) : ExprTyped(e.value[i])
         [] e.kind = "LambdaLiteral" -> ExprTyped(e.body)
         [] e.kind = "FunctionCall" ->
                /\ ExprTyped(e.function)
                /\ \A i \in 1..Len(e.arguments) : ExprTyped(e.arguments[i])
         [] e.kind = "OperatorCall" -> \A i \in 1..Len(e.operands) : ExprTyped(e.operands[i])
         [] e.kind = "IfExpr" ->
                ExprTyped(e.condition) /\ ExprTyped(e.then_expr) /\ ExprTyped(e.else_expr)
         [] e.kind = "Block" -> \A i \in 1..Len(e.statements) : StmtTyped(e.statements[i])
         [] OTHER -> TRUE

StmtTyped(s) ==
    CASE s.kind = "ExprStmt" -> ExprTyped(s.expression)
      [] s.kind = "Assignment" -> ExprTyped(s.lvalue) /\ ExprTyped(s.rvalue)
      [] s.kind = "DeclStmt" -> DeclTyped(s.declaration)
      [] s.kind = "WhileLoop" ->
            /\ ExprTyped(s.condition)
            /\ IF IsExpression(s.body) THEN ExprTyped(s.body) ELSE StmtTyped(s.body)
      [] OTHER -> TRUE

DeclTyped(d) ==
    CASE d.kind = "VarDecl" -> IsNone(d.initializer) \/ ExprTyped(d.initializer)
      [] d.kind = "FunctionDef" -> ExprTyped(d.body)
      [] OTHER -> TRUE

ProgramAnnotated == mode = "annotate" /\ phase = "annotated"

(* C10: after type_annotate_program returned without error, every expression   *)
(* reachable from the Program carries a type, the expressions nested in the    *)
(* statements of a Block included: condition and body of a WhileLoop, both     *)
(* sides of an Assignment, initializers of local declarations.                 *)
C10_EveryExpressionTyped ==
    ProgramAnnotated =>
        \A i \in 1..Len(tast.declarations) : DeclTyped(tast.declarations[i])

-----------------------------------------------------------------------------
(* Declarations in the annotator                                               *)

(* C11: in every Program that passes annotation, the declared return type of   *)
(* each FunctionDef equals the type inferred for its body, base type and       *)
(* dimension; a FunctionDef whose body infers to another type does not pass.   *)
C11_DeclaredReturnIsBodyType ==
    ProgramAnnotated =>
        \A i \in 1..Len(tast.declarations) :
            tast.declarations[i].kind = "FunctionDef" =>
                /\ tast.declarations[i].body.type.base_type
                        = tast.declarations[i].return_type.base_type
                /\ tast.declarations[i].body.type.dimension
                        = tast.declarations[i].return_type.dimension

VarDeclAnnotated == mode = "annotate" /\ input.family = "vardecl" /\ phase # "new"

(* C12: annotating `d v = e` raises TypeError and leaves v unbound when the    *)
(* type of e differs from d in base type or in dimension; binds v to d when    *)
(* they agree; binds v to the type of e when no type is declared.              *)
C12_VarDeclAgainstDeclaredType ==
    VarDeclAnnotated =>
        IF IsNone(input.declared)
        THEN /\ phase = "annotated"
             /\ "v" \in DOMAIN type_env
             /\ type_env["v"] = TypeOfLiteral(input.value)
        ELSE IF /\ TypeOfLiteral(input.value).base_type = input.declared.base_type
                /\ TypeOfLiteral(input.value).dimension = input.declared.dimension
        THEN /\ phase = "annotated"
             /\ "v" \in DOMAIN type_env
             /\ type_env["v"] = input.declared
        ELSE /\ phase = "raised"
             /\ inferred.err = "TypeError"
             /\ "v" \notin DOMAIN type_env

(* int v = 3.14 is rejected and v stays unbound *)
C12_Witness ==
    /\ VarDeclAnnotated
    /\ input.declared = IntT
    /\ input.value = FloatLit(314)
    /\ inferred.err = "TypeError"
    /\ "v" \notin DOMAIN type_env

-----------------------------------------------------------------------------
(* Scopes in the annotator and the checker                                     *)

RECURSIVE ScopedExpr(_, _), ScopedStmts(_, _)

(* every VarRef below e names a variable that is in scope by the lexical rule: *)
(* names holds the names in scope where e stands                               *)
ScopedExpr(e, names) ==
    CASE e.kind = "VarRef" -> e.name \in names
      [] e.kind = "ArrayLiteral" -> \A i \in 1..Len(e.value) : ScopedExpr(e.value[i], names)
      [] e.kind = "LambdaLiteral" ->
            ScopedExpr(e.body, names \cup {e.params[i].name : i \in 1..Len(e.params)})
      [] e.kind = "FunctionCall" ->
            /\ ScopedExpr(e.function, names)
            /\ \A i \in 1..Len(e.arguments) : ScopedExpr(e.arguments[i], names)
      [] e.kind = "OperatorCall" ->
            \A i \in 1..Len(e.operands) : ScopedExpr(e.operands[i], names)
      [] e.kind = "IfExpr" ->
            /\ ScopedExpr(e.condition, names)
            /\ ScopedExpr(e.then_expr, names)
            /\ ScopedExpr(e.else_expr, names)
      [] e.kind = "Block" -> ScopedStmts(e.statements, names)
      [] OTHER -> TRUE

(* the statements of a Block: a declaration is in scope for the statements     *)
(* after it, and what a nested construct declares ends with the construct      *)
ScopedStmts(stmts, names) ==
    IF Len(stmts) = 0 THEN TRUE
    ELSE
    CASE stmts[1].kind = "ExprStmt" ->
            ScopedExpr(stmts[1].expression, names) /\ ScopedStmts(Tail(stmts), names)
      [] stmts[1].kind = "Assignment" ->
            /\ ScopedExpr(stmts[1].lvalue, names)
            /\ ScopedExpr(stmts[1].rvalue, names)
            /\ ScopedStmts(Tail(stmts), names)
      [] stmts[1].kind = "DeclStmt" ->
            /\ IsNone(stmts[1].declaration.initializer)
                    \/ ScopedExpr(stmts[1].declaration.initializer, names)
            /\ ScopedStmts(Tail(stmts), names \cup {stmts[1].declaration.name})
      [] stmts[1].kind = "WhileLoop" ->
            /\ ScopedExpr(stmts[1].condition, names)
            /\ IF IsExpression(stmts[1].body) THEN ScopedExpr(stmts[1].body, names)
               ELSE ScopedStmts(<<stmts[1].body>>, names)
            /\ ScopedStmts(Tail(stmts), names)
      [] OTHER -> TRUE

FunctionAnnotated == mode = "annotate" /\ input.family = "function" /\ phase # "new"

MainBody == input.program.declarations[2].body

(* statements that read the enclosing i or the parameter p from inside a       *)
(* Block, a lambda or the function body                                        *)
ReadsEnclosing == {InnerDecl, LambdaOverJ, ExprStmt(VarRef("p"))}

(* C13: annotating a Block, a LambdaLiteral or a FunctionDef body leaves the   *)
(* enclosing environment as it was: after the Program the environment binds    *)
(* only the top-level names, never the parameter p or a local of the body; a   *)
(* Program passes only if every reference is in lexical scope, a reference to  *)
(* a Block's local or a lambda's parameter after the construct being a         *)
(* TypeError; enclosing names are visible inside the constructs.               *)
C13_SnapshotsNeverWriteBack ==
    FunctionAnnotated =>
        /\ DOMAIN type_env \subseteq {"i", "main"}
        /\ ~ScopedExpr(MainBody, {"i", "main", "p"})
                => (phase = "raised" /\ inferred.err = "TypeError")
        /\ (\A n \in 1..Len(MainBody.statements) : MainBody.statements[n] \in ReadsEnclosing)
                => phase = "annotated"

(* { int j = i; } j : j is unbound after the Block that declared it *)
C13_Witness ==
    /\ FunctionAnnotated
    /\ MainBody.statements = <<InnerDecl, ExprStmt(VarRef("j"))>>
    /\ phase = "raised"
    /\ inferred.err = "TypeError"
    /\ "j" \notin DOMAIN type_env

-----------------------------------------------------------------------------
(* Frames: blocks and assignments                                              *)

(* every scope input evaluates a Block on the global frame: its frame is the   *)
(* first one allocated after the global frame                                  *)
BlockEvaluated == IsScopeRun /\ phase = "done"

OuterBlockFrame == GlobalFrame + 1

InnerBlockFrame == OuterBlockFrame + 1

(* C14: a Block is executed in a fresh child frame of the current frame: what  *)
(* a DeclStmt inside it declares is not defined in the enclosing frame after   *)
(* the Block (lookup from there fails or finds the outer binding), and a       *)
(* declaration that shadows an outer name leaves the outer binding's value     *)
(* unchanged.                                                                  *)
C14_BlockDeclaresInChildFrame ==
    BlockEvaluated =>
        /\ frames[OuterBlockFrame].parent = GlobalFrame
        /\ "x" \in DOMAIN frames[OuterBlockFrame].vars
        /\ input.variant \in {"FunctionDef", "LambdaGlobal"} =>
                /\ frames[OuterBlockFrame].vars["x"].value = PyInt(input.lx)
                /\ "x" \in DOMAIN frames[GlobalFrame].vars
                /\ frames[GlobalFrame].vars["x"].value = PyInt(input.gx)
                /\ lookup(frames, GlobalFrame, "x").val.value = PyInt(input.gx)
        /\ input.variant = "LambdaBlock" =>
                /\ {"x", "f"} \cap DOMAIN frames[GlobalFrame].vars = {}
                /\ lookup(frames, GlobalFrame, "x").err = "RuntimeTypeError"
                /\ frames[InnerBlockFrame].parent = OuterBlockFrame
                /\ frames[InnerBlockFrame].vars["x"].value = PyInt(input.lx)
                /\ frames[OuterBlockFrame].vars["x"].value = PyInt(input.gx)

(* { x = 10; f = ...; { x = 99; f(5) } } on a global frame that has no x *)
C14_Witness ==
    /\ BlockEvaluated
    /\ input.variant = "LambdaBlock"
    /\ input.gx = 10 /\ input.lx = 99
    /\ frames[InnerBlockFrame].vars["x"].value = PyInt(99)
    /\ frames[OuterBlockFrame].vars["x"].value = PyInt(10)
    /\ "x" \notin DOMAIN frames[GlobalFrame].vars

AssignExecuted == mode = "interpret" /\ input.family = "assign" /\ phase = "done"

(* the frame the Assignment is executed in *)
AssignFrame == IF input.variant = "Nested" THEN InnerBlockFrame ELSE GlobalFrame

(* x is declared in frame f, where its declaration binds it to f *)
DeclaredIn(f) ==
    CASE f = GlobalFrame -> input.inGlobal
      [] f = OuterBlockFrame -> input.inOuter
      [] f = InnerBlockFrame -> input.inInner
      [] OTHER -> FALSE

(* the nearest frame on the parent chain of the Assignment's frame in which x  *)
(* is declared, the Assignment's frame if there is none                        *)
NearestHolder ==
    IF input.variant = "Global" THEN GlobalFrame
    ELSE IF input.inInner THEN InnerBlockFrame
    ELSE IF input.inOuter THEN OuterBlockFrame
    ELSE IF input.inGlobal THEN GlobalFrame
    ELSE InnerBlockFrame

(* C15: Assignment(VarRef(x), e) rebinds x in the nearest frame on the parent  *)
(* chain that holds x and changes no other frame; when no frame holds x the    *)
(* binding is created in the current frame; afterwards lookup(x) from the      *)
(* current frame returns the assigned value.                                   *)
C15_AssignmentRebindsNearestHolder ==
    AssignExecuted =>
        /\ result.err = "none"
        /\ \A f \in 1..Len(frames) :
                IF f = NearestHolder
                THEN /\ "x" \in DOMAIN frames[f].vars
                     /\ frames[f].vars["x"].value = PyInt(input.a)
                ELSE IF DeclaredIn(f)
                THEN /\ "x" \in DOMAIN frames[f].vars
                     /\ frames[f].vars["x"].value = PyInt(f)
                ELSE "x" \notin DOMAIN frames[f].vars
        /\ lookup(frames, AssignFrame, "x").val.value = PyInt(input.a)

(* x declared at top level and in the outer Block, assigned in the inner one *)
C15_Witness ==
    /\ AssignExecuted
    /\ input.variant = "Nested"
    /\ input.inGlobal /\ input.inOuter /\ ~input.inInner
    /\ input.a = 99
    /\ frames[OuterBlockFrame].vars["x"].value = PyInt(99)
    /\ frames[GlobalFrame].vars["x"].value = PyInt(1)
    /\ "x" \notin DOMAIN frames[InnerBlockFrame].vars

-----------------------------------------------------------------------------
(* Recursion, loops, declaration order                                         *)

RECURSIVE Factorial(_)
Factorial(n) == IF n = 0 THEN 1 ELSE n * Factorial(n - 1)

(* fact(n) was evaluated after run() registered fact in the global frame *)
FactCalled ==
    /\ mode = "interpret" /\ input.family = "fact" /\ phase = "done"
    /\ "fact" \in DOMAIN frames[GlobalFrame].vars

(* C16: with fact defined as if n == 0 then 1 else n * fact(n - 1) and         *)
(* registered by run(), fact(n) returns n! (120 for n = 5); the call makes     *)
(* n + 1 activations and the k-th reads its own binding of n, n - k + 1.       *)
C16_RecursiveFunctionDef ==
    FactCalled =>
        /\ result.err = "none"
        /\ result.val.value = PyInt(Factorial(input.n))
        /\ Len(calls) = input.n + 1
        /\ \A k \in 1..Len(calls) :
                /\ "n" \in DOMAIN frames[calls[k].frame].vars
                /\ frames[calls[k].frame].vars["n"].value = PyInt(input.n - k + 1)

C16_Witness ==
    /\ FactCalled
    /\ input.n = 5
    /\ result.val.value = PyInt(120)
    /\ Len(calls) = 6

WhileExecuted == mode = "interpret" /\ input.family = "while" /\ phase = "done"

(* C17: WhileLoop(i < 3, body) with a body that is i = i + 1 evaluates the     *)
(* condition before every iteration and executes the body once for each truthy *)
(* evaluation: started with i = 0 it ends without error after three body       *)
(* executions with i = 3 in the frame that holds i (started with i >= 3 it     *)
(* leaves i alone).                                                            *)
C17_WhileRunsUntilConditionFalsy ==
    WhileExecuted =>
        /\ result.err = "none"
        /\ frames[GlobalFrame].vars["i"].value
                = PyInt(IF input.start < 3 THEN 3 ELSE input.start)

OrderProgram == mode = "interpret" /\ input.family = "order" /\ phase # "new"

(* C18: top-level declarations take effect in declaration order: the           *)
(* initializer of b, which reads the earlier VarDecl x or calls the earlier    *)
(* FunctionDef f, is evaluated with x and f in effect, so that constructing    *)
(* the Interpreter and run() end without error with b = gx + a.                *)
C18_DeclarationsInOrder ==
    OrderProgram =>
        /\ phase # "raised"
        /\ "b" \in DOMAIN frames[GlobalFrame].vars
        /\ frames[GlobalFrame].vars["b"].value = PyInt(input.gx + input.a)

-----------------------------------------------------------------------------
(* Runtime errors                                                              *)

FailureEvaluated == mode = "interpret" /\ input.family = "failure" /\ phase = "done"

(* C19: every failure during evaluation (name lookup, call of a non-function,  *)
(* wrong arity, illegal index, operator type error, scalar division by zero)   *)
(* surfaces as RuntimeTypeError and as no other exception kind.                *)
C19_FailuresAreRuntimeTypeErrors ==
    (FailureEvaluated /\ result.err # "none") => result.err = "RuntimeTypeError"

-----------------------------------------------------------------------------
(* Builtins                                                                    *)

BuiltinEvaluated == mode = "interpret" /\ input.family = "builtin" /\ phase = "done"

RECURSIVE Leaves(_)
(* the numbers of a nested list, in hundredths *)
Leaves(v) ==
    IF v.kind = "list" THEN UNION {Leaves(v.items[i]) : i \in 1..Len(v.items)}
    ELSE {Hundredths(v)}

(* the elements of an array of either engine, in hundredths *)
ElementValues(v) ==
    IF v.kind = "ndarray"
    THEN {AsDtype(v.data[k], v.dtype, "float") : k \in 1..Len(v.data)}
    ELSE Leaves(v)

(* C20: zeros(dims) and ones(dims) return an array whose shape is dims and     *)
(* whose every element is 0, respectively 1, with the dense n-d arrays and     *)
(* with nested lists alike.                                                    *)
C20_ZerosOnesSameInBothEngines ==
    BuiltinEvaluated =>
        /\ result.err = "none"
        /\ result.val.shape = PyTuple([k \in 1..Len(input.dims) |-> input.dims[k]])
        /\ ElementValues(result.val.value) = {IF input.name = "ones" THEN 100 ELSE 0}

-----------------------------------------------------------------------------
(* The checker's rules for operators, array literals and literals              *)

OperatorChecked == mode = "check" /\ input.family = "operator" /\ phase = "done"

(* the types the environment declares for the operands (or the elements) *)
DeclaredOperands == [i \in 1..Cardinality(DOMAIN input.env) |-> input.env[ArgName(i)]]

SameBases == \A i \in 1..Len(DeclaredOperands) :
                DeclaredOperands[i].base_type = DeclaredOperands[1].base_type

(* two operands whose ranks are distinct positive values *)
RanksClash ==
    \E i, j \in 1..Len(DeclaredOperands) :
        /\ DeclaredOperands[i].dimension # DeclaredOperands[j].dimension
        /\ DeclaredOperands[i].dimension > 0
        /\ DeclaredOperands[j].dimension > 0

MaxOperandRank == MaxOf([i \in 1..Len(DeclaredOperands) |-> DeclaredOperands[i].dimension])

(* C21: an OperatorCall with an arithmetic or comparison operator is checked   *)
(* by the broadcasting rule with parameter rank 0: operands of unequal base    *)
(* types are a TypeError, operands of two distinct positive ranks are a        *)
(* TypeError, and otherwise the result has the maximum operand rank, with the  *)
(* first operand's base for + - * / % and bool for comparisons.                *)
C21_OperatorCallBroadcasts ==
    (OperatorChecked /\ input.expr.operator \in ArithmeticOps \cup ComparisonOps)
        => IF ~SameBases \/ RanksClash THEN inferred.err = "TypeError"
           ELSE inferred = Ok(Type(IF input.expr.operator \in ArithmeticOps
                                   THEN DeclaredOperands[1].base_type
                                   ELSE PrimitiveType("bool"),
                                   MaxOperandRank))

LogicalAnnotated == mode = "operator" /\ input.family = "logical" /\ inferred.err # "pending"

AllBoolScalars ==
    \A i \in 1..Len(input.test.operands) :
        /\ input.test.operands[i].kind = "PrimitiveLiteral"
        /\ input.test.operands[i].value.kind = "bool"

(* C22: the annotator infers a logical and/or on two bool scalars, and a unary *)
(* not on one bool scalar, as bool of dimension 0, and raises TypeError when   *)
(* an operand is not a bool scalar.                                            *)
C22_LogicalOperatorsAccepted ==
    LogicalAnnotated =>
        IF AllBoolScalars THEN inferred = Ok(BoolT) ELSE inferred.err = "TypeError"

ArrayChecked == mode = "check" /\ input.family = "array" /\ phase = "done"

Homogeneous == \A i \in 1..Len(DeclaredOperands) : DeclaredOperands[i] = DeclaredOperands[1]

(* C23: an ArrayLiteral whose elements all infer to the same T(b, d) infers to *)
(* T(b, d + 1); when an element differs from the first in base type or in      *)
(* dimension, inference raises TypeError.                                      *)
C23_ArrayHomogeneity ==
    ArrayChecked =>
        IF Homogeneous
        THEN inferred = Ok(Type(DeclaredOperands[1].base_type,
                                DeclaredOperands[1].dimension + 1))
        ELSE inferred.err = "TypeError"

(* [a1, a2, a3] with a1, a2 int vectors and a3 an int matrix is rejected *)
C23_Witness ==
    /\ ArrayChecked
    /\ DeclaredOperands = <<Type(PrimitiveType("int"), 1), Type(PrimitiveType("int"), 1),
                            Type(PrimitiveType("int"), 2)>>
    /\ inferred.err = "TypeError"

LiteralChecked == mode = "check" /\ input.family = "literal" /\ phase = "done"

(* C24: PrimitiveLiteral(v) is inferred as bool iff v is a boolean, as int iff *)
(* v is an integer that is not a boolean, as float iff v is a floating-point   *)
(* number, always with dimension 0; a boolean, which is also an instance of    *)
(* int, is inferred as bool.                                                   *)
C24_LiteralCorrectness ==
    LiteralChecked =>
        LET v == input.expr.value IN
        /\ (inferred = Ok(BoolT)) <=> (v.kind = "bool")
        /\ (inferred = Ok(IntT)) <=> (v.kind = "int")
        /\ (inferred = Ok(FloatT)) <=> (v.kind = "float")
        /\ inferred.err = "none" => inferred.val.dimension = 0
        /\ (isinstance(v, "bool") /\ isinstance(v, "int")) => inferred = Ok(BoolT)

(* PrimitiveLiteral(True): an instance of bool and of int, inferred as bool *)
C24_Witness ==
    /\ LiteralChecked
    /\ input.expr.value = PyBool(TRUE)
    /\ isinstance(input.expr.value, "int")
    /\ inferred = Ok(BoolT)

-----------------------------------------------------------------------------
(* src/parser/tokenizer.py: Token; src/parser/parser.py: Parser. The parser's  *)
(* methods are operators on the token list and the position self.pos; each     *)
(* returns the node it built and the new position, or the ParserError raised.  *)

Token(type, value, position) ==
    [kind |-> "Token", type |-> type, value |-> value, pos |-> position]

(* a returned node and self.pos after the call *)
Parsed(node, p) == [err |-> "none", at |-> <<>>, node |-> node, pos |-> p]

(* raise ParserError(message): `at` lists the token positions the message names *)
ParserError(at, p) == [err |-> "ParserError", at |-> at, node |-> None, pos |-> p]

(* int(text) of a text that is not an integer numeral *)
ValueError(p) == [err |-> "ValueError", at |-> <<>>, node |-> None, pos |-> p]

(* the numerals of the model and their values: float(text) when the text has a *)
(* '.', an 'e' or an 'E', int(text) otherwise                                  *)
IsFloatNumeral(text) == text \in {"2.5", "1e2"}

float(text) ==
    CASE text = "2.5" -> PyFloat(250)
      [] text = "1e2" -> PyFloat(10000)
      [] text = "0" -> PyFloat(0)
      [] text = "1" -> PyFloat(100)
      [] text = "2" -> PyFloat(200)
      [] text = "3" -> PyFloat(300)

int(text) ==
    CASE text = "0" -> Ok(PyInt(0))
      [] text = "1" -> Ok(PyInt(1))
      [] text = "2" -> Ok(PyInt(2))
      [] text = "3" -> Ok(PyInt(3))
      [] OTHER -> Raise("ValueError")

(* tok.value[1:-1]: the text of a STRING or CHAR token without its quotes *)
Unquoted(text) ==
    CASE text = "\"s\"" -> "s"
      [] text = "'c'" -> "c"
      [] OTHER -> ""

(* value=None, the default of expect and accept: any value *)
AnyValue == "None"

peek(toks, p) == toks[p + 1]

expect(toks, p, typ, value) ==
    LET t == peek(toks, p) IN
    IF t.type # typ THEN ParserError(<<t.pos>>, p)
    ELSE IF value # AnyValue /\ t.value # value THEN ParserError(<<t.pos>>, p)
    ELSE Parsed(t, p + 1)

(* accept returns the token or None; the callers only test it *)
accept(toks, p, typ, value) ==
    LET t == peek(toks, p) IN
    IF t.type = typ /\ (value = AnyValue \/ t.value = value)
    THEN [found |-> TRUE, pos |-> p + 1]
    ELSE [found |-> FALSE, pos |-> p]

PRECEDENCE ==
    [op \in {"=", "||", "&&", "==", "!=", "<", "<=", ">", ">=", "+", "-", "*", "/", "%"} |->
        CASE op = "=" -> 1
          [] op = "||" -> 2
          [] op = "&&" -> 3
          [] op \in {"==", "!="} -> 4
          [] op \in {"<", "<=", ">", ">="} -> 5
          [] op \in {"+", "-"} -> 6
          [] op \in {"*", "/", "%"} -> 7]

RIGHT_ASSOC == {"="}

(* a right operand parsed at the operator's own precedence, whatever it is *)
RhsMinPrecSame(op, prec) == prec

(* prec + (0 if op in self.RIGHT_ASSOC else 1) *)
RhsMinPrec(op, prec) == prec + (IF op \in RIGHT_ASSOC THEN 0 ELSE 1)

TypeKeywords == {"int", "float", "bool", "char", "unit"}

RECURSIVE parse_expression(_, _, _), ExpressionLoop(_, _, _, _), parse_primary(_, _),
          PostfixLoop(_, _, _), ExpressionList(_, _, _, _), parse_array_literal(_, _),
          parse_statement(_, _), parse_block(_, _), BlockLoop(_, _, _), parse_if(_, _),
          parse_while(_, _), parse_declaration(_, _), ParamLoop(_, _, _),
          TypeDims(_, _, _, _), ArrayDims(_, _, _), ParseDeclarations(_, _, _)

(* the loop of parse_type: `[`, an optional NUMBER, `]`, dim += 1 *)
TypeDims(toks, p, base, dim) ==
    LET Closed(close) ==
            IF close.err # "none" THEN close ELSE TypeDims(toks, close.pos, base, dim + 1)
        Opened(open) ==
            IF ~open.found THEN Parsed(Type(base, dim), p)
            ELSE Closed(expect(toks,
                               IF peek(toks, open.pos).type = "NUMBER" THEN open.pos + 1
                               ELSE open.pos,
                               "OP", "]"))
    IN  Opened(accept(toks, p, "OP", "["))

parse_type(toks, p) ==
    LET t == peek(toks, p) IN
    IF t.type = "KW" /\ t.value \in TypeKeywords
    THEN TypeDims(toks, p + 1, PrimitiveType(t.value), 0)
    ELSE IF t.type = "ID" THEN TypeDims(toks, p + 1, RecordType(t.value), 0)
    ELSE ParserError(<<t.pos>>, p)

(* the loop of parse_declaration over `[size]` and `[]` after the name *)
ArrayDims(toks, p, array_dims) ==
    LET Closed(size, close) ==
            IF close.err # "none" THEN close
            ELSE ArrayDims(toks, close.pos, Append(array_dims, size.val))
        Sized(q, sized, size) ==
            IF size.err # "none" THEN ValueError(q + 1)
            ELSE Closed(size, expect(toks, IF sized THEN q + 1 ELSE q, "OP", "]"))
        Opened(open) ==
            IF ~open.found THEN Parsed(array_dims, p)
            ELSE Sized(open.pos, peek(toks, open.pos).type = "NUMBER",
                       IF peek(toks, open.pos).type = "NUMBER"
                       THEN int(peek(toks, open.pos).value) ELSE Ok(None))
    IN  Opened(accept(toks, p, "OP", "["))

(* the parameter loop of parse_declaration, entered after `(` when no `)` follows *)
ParamLoop(toks, p, params) ==
    LET Comma(ps, comma) ==
            IF comma.err # "none" THEN comma ELSE ParamLoop(toks, comma.pos, ps)
        Close(ps, q, close) ==
            IF close.found THEN Parsed(ps, close.pos)
            ELSE Comma(ps, expect(toks, q, "OP", ","))
        Named(param_type, param_name) ==
            IF param_name.err # "none" THEN param_name
            ELSE Close(Append(params,
                              VarDecl(param_name.node.value, param_type.node, FALSE, None)),
                       param_name.pos, accept(toks, param_name.pos, "OP", ")"))
        Typed(param_type) ==
            IF param_type.err # "none" THEN param_type
            ELSE Named(param_type, expect(toks, param_type.pos, "ID", AnyValue))
    IN  Typed(parse_type(toks, p))

(* the loops of parse_array_literal and of the call arguments: an expression,  *)
(* then the closing token or a comma                                           *)
ExpressionList(toks, p, closing, items) ==
    LET Comma(es, comma) ==
            IF comma.err # "none" THEN comma
            ELSE ExpressionList(toks, comma.pos, closing, es)
        Close(es, q, close) ==
            IF close.found THEN Parsed(es, close.pos)
            ELSE Comma(es, expect(toks, q, "OP", ","))
        Item(e) ==
            IF e.err # "none" THEN e
            ELSE Close(Append(items, e.node), e.pos, accept(toks, e.pos, "OP", closing))
    IN  Item(parse_expression(toks, p, 0))

parse_array_literal(toks, p) ==
    LET Values(values) ==
            IF values.err # "none" THEN values
            ELSE Parsed(ArrayLiteral(values.node), values.pos)
        Empty(q, empty) ==
            IF empty.found THEN Parsed(ArrayLiteral(<<>>), empty.pos)
            ELSE Values(ExpressionList(toks, q, "}", <<>>))
        Opened(open) ==
            IF open.err # "none" THEN open
            ELSE Empty(open.pos, accept(toks, open.pos, "OP", "}"))
    IN  Opened(expect(toks, p, "OP", "{"))

parse_declaration(toks, p) ==
    LET Body(name, ttype, params, body) ==
            IF body.err # "none" THEN body
            ELSE Parsed(FunctionDef(name, params.node, ttype, body.node), body.pos)
        Params(name, ttype, params) ==
            IF params.err # "none" THEN params
            ELSE Body(name, ttype, params, parse_block(toks, params.pos))
        NoParams(name, ttype, q, none) ==
            Params(name, ttype,
                   IF none.found THEN Parsed(<<>>, none.pos) ELSE ParamLoop(toks, q, <<>>))
        Semi(name, ttype, init, semi) ==
            IF semi.err # "none" THEN semi
            ELSE Parsed(VarDecl(name, ttype, TRUE, init.node), semi.pos)
        Initializer(name, ttype, init) ==
            IF init.err # "none" THEN init
            ELSE Semi(name, ttype, init, expect(toks, init.pos, "OP", ";"))
        Eq(name, ttype, eq, next) ==
            Initializer(name, ttype,
                 IF ~eq.found THEN Parsed(None, eq.pos)
                 ELSE IF next.type = "OP" /\ next.value = "{"
                 THEN parse_array_literal(toks, eq.pos)
                 ELSE parse_expression(toks, eq.pos, 0))
        Paren(name, ttype, q, paren) ==
            IF paren.found
            THEN NoParams(name, ttype, paren.pos, accept(toks, paren.pos, "OP", ")"))
            ELSE Eq(name, ttype, accept(toks, q, "OP", "="),
                    peek(toks, accept(toks, q, "OP", "=").pos))
        Dims(base, name_token, dims) ==
            IF dims.err # "none" THEN dims
            ELSE Paren(name_token.node.value,
                       IF Len(dims.node) > 0 THEN Type(base.node, dims.node) ELSE base.node,
                       dims.pos, accept(toks, dims.pos, "OP", "("))
        Name(base, name_token) ==
            IF name_token.err # "none" THEN name_token
            ELSE Dims(base, name_token, ArrayDims(toks, name_token.pos, <<>>))
        Base(base) ==
            IF base.err # "none" THEN base
            ELSE Name(base, expect(toks, base.pos, "ID", AnyValue))
    IN  Base(parse_type(toks, p))

(* the loop of parse: declarations until the EOF token *)
ParseDeclarations(toks, p, decls) ==
    IF peek(toks, p).type = "EOF" THEN Parsed(Program(decls), p)
    ELSE LET Rest(d) ==
                IF d.err # "none" THEN d
                ELSE ParseDeclarations(toks, d.pos, Append(decls, d.node))
         IN  Rest(parse_declaration(toks, p))

parse(toks, p) == ParseDeclarations(toks, p, <<>>)

(* the loop of parse_block: statements until `}`; EOF first is an error whose  *)
(* message is the fixed text "Unterminated block"                              *)
BlockLoop(toks, p, stmts) ==
    LET Rest(s) ==
            IF s.err # "none" THEN s ELSE BlockLoop(toks, s.pos, Append(stmts, s.node))
        Close(close) ==
            IF close.found THEN Parsed(Block(stmts), close.pos)
            ELSE IF peek(toks, p).type = "EOF" THEN ParserError(<<>>, p)
            ELSE Rest(parse_statement(toks, p))
    IN  Close(accept(toks, p, "OP", "}"))

parse_block(toks, p) ==
    LET Opened(open) ==
            IF open.err # "none" THEN open ELSE BlockLoop(toks, open.pos, <<>>)
    IN  Opened(expect(toks, p, "OP", "{"))

parse_statement(toks, p) ==
    LET t == peek(toks, p)
        Semi(node, semi) ==
            IF semi.err # "none" THEN semi ELSE Parsed(ExprStmt(node), semi.pos)
        Expression(e) ==
            IF e.err # "none" THEN e ELSE Semi(e.node, expect(toks, e.pos, "OP", ";"))
        ExpressionStatement(q) == Expression(parse_expression(toks, q, 0))
        After(after) ==
            IF after.type # "OP" \/ after.value # ";"
            THEN ExpressionStatement(p + 1)
            ELSE Semi(None, expect(toks, p + 1, "OP", ";"))
    IN
    IF t.type = "KW" /\ t.value = "if" THEN parse_if(toks, p)
    ELSE IF t.type = "KW" /\ t.value = "while" THEN parse_while(toks, p)
    ELSE IF t.type = "KW" /\ t.value = "return" THEN After(peek(toks, p + 1))
    ELSE IF t.type = "KW" /\ t.value \in {"int", "float", "bool", "char"}
    THEN parse_declaration(toks, p)
    ELSE IF t.type = "OP" /\ t.value = "{" THEN parse_block(toks, p)
    ELSE ExpressionStatement(p)

parse_if(toks, p) ==
    LET Else(cond, then_branch, else_branch) ==
            IF else_branch.err # "none" THEN else_branch
            ELSE Parsed(IfExpr(cond.node, then_branch.node, else_branch.node),
                        else_branch.pos)
        ElseKw(cond, then_branch, else_kw) ==
            IF ~else_kw.found
            THEN Parsed(IfExpr(cond.node, then_branch.node, None), then_branch.pos)
            ELSE Else(cond, then_branch, parse_statement(toks, else_kw.pos))
        Then(cond, then_branch) ==
            IF then_branch.err # "none" THEN then_branch
            ELSE ElseKw(cond, then_branch, accept(toks, then_branch.pos, "KW", "else"))
        Close(cond, close) ==
            IF close.err # "none" THEN close
            ELSE Then(cond, parse_statement(toks, close.pos))
        Cond(cond) ==
            IF cond.err # "none" THEN cond
            ELSE Close(cond, expect(toks, cond.pos, "OP", ")"))
        Opened(open) ==
            IF open.err # "none" THEN open ELSE Cond(parse_expression(toks, open.pos, 0))
        Kw(kw) ==
            IF kw.err # "none" THEN kw ELSE Opened(expect(toks, kw.pos, "OP", "("))
    IN  Kw(expect(toks, p, "KW", "if"))

parse_while(toks, p) ==
    LET Body(cond, body) ==
            IF body.err # "none" THEN body
            ELSE Parsed(WhileLoop(cond.node, body.node), body.pos)
        Close(cond, close) ==
            IF close.err # "none" THEN close
            ELSE Body(cond, parse_statement(toks, close.pos))
        Cond(cond) ==
            IF cond.err # "none" THEN cond
            ELSE Close(cond, expect(toks, cond.pos, "OP", ")"))
        Opened(open) ==
            IF open.err # "none" THEN open ELSE Cond(parse_expression(toks, open.pos, 0))
        Kw(kw) ==
            IF kw.err # "none" THEN kw ELSE Opened(expect(toks, kw.pos, "OP", "("))
    IN  Kw(expect(toks, p, "KW", "while"))

(* the `while True` loop of parse_expression, `node` the tree built so far *)
ExpressionLoop(toks, p, node, min_prec) ==
    LET tok == peek(toks, p)
        Rhs(op, rhs) ==
            IF rhs.err # "none" THEN rhs
            ELSE ExpressionLoop(toks, rhs.pos,
                                IF op = "=" THEN Assignment(node, rhs.node)
                                ELSE OperatorCall(op, <<node, rhs.node>>),
                                min_prec)
        Climb(op, prec) ==
            IF prec < min_prec THEN Parsed(node, p)
            ELSE Rhs(op, parse_expression(toks, p + 1, RhsMinPrec(op, prec)))
    IN
    IF tok.type = "OP" /\ tok.value \in DOMAIN PRECEDENCE
    THEN Climb(tok.value, PRECEDENCE[tok.value])
    ELSE Parsed(node, p)

parse_expression(toks, p, min_prec) ==
    LET First(first) ==
            IF first.err # "none" THEN first
            ELSE ExpressionLoop(toks, first.pos, first.node, min_prec)
    IN  First(parse_primary(toks, p))

(* the loop of parse_primary after an identifier: calls and indexings *)
PostfixLoop(toks, p, node) ==
    LET Args(args) ==
            IF args.err # "none" THEN args
            ELSE PostfixLoop(toks, args.pos, FunctionCall(node, args.node))
        NoArgs(q, none) ==
            Args(IF none.found THEN Parsed(<<>>, none.pos)
                 ELSE ExpressionList(toks, q, ")", <<>>))
        Close(index, close) ==
            IF close.err # "none" THEN close
            ELSE PostfixLoop(toks, close.pos, OperatorCall("[]", <<node, index.node>>))
        Index(index) ==
            IF index.err # "none" THEN index
            ELSE Close(index, expect(toks, index.pos, "OP", "]"))
        Postfix(paren, bracket) ==
            IF paren.found THEN NoArgs(paren.pos, accept(toks, paren.pos, "OP", ")"))
            ELSE IF bracket.found THEN Index(parse_expression(toks, bracket.pos, 0))
            ELSE Parsed(node, p)
    IN  Postfix(accept(toks, p, "OP", "("), accept(toks, p, "OP", "["))

parse_primary(toks, p) ==
    LET tok == peek(toks, p)
        Close(expr, close) ==
            IF close.err # "none" THEN close ELSE Parsed(expr.node, close.pos)
        Inner(expr) ==
            IF expr.err # "none" THEN expr
            ELSE Close(expr, expect(toks, expr.pos, "OP", ")"))
    IN
    IF tok.type = "NUMBER"
    THEN Parsed(PrimitiveLiteral(IF IsFloatNumeral(tok.value) THEN float(tok.value)
                                 ELSE int(tok.value).val), p + 1)
    ELSE IF tok.type \in {"STRING", "CHAR"}
    THEN Parsed(PrimitiveLiteral(PyStr(Unquoted(tok.value))), p + 1)
    ELSE IF tok.type = "KW" /\ tok.value \in {"true", "false"}
    THEN Parsed(PrimitiveLiteral(PyBool(tok.value = "true")), p + 1)
    ELSE IF tok.type = "ID" THEN PostfixLoop(toks, p + 1, VarRef(tok.value))
    ELSE IF tok.type = "OP" /\ tok.value = "(" THEN Inner(parse_expression(toks, p + 1, 0))
    ELSE ParserError(<<tok.pos>>, p)

-----------------------------------------------------------------------------
(* Driver of the parser: the lexemes of a source text, separated by single     *)
(* blanks, are tokenized; Parser(tokens).parse() or .parse_expression() runs   *)
(* on the tokens.                                                              *)

KEYWORDS ==
    {"int", "float", "char", "bool", "unit", "if", "else", "while", "for", "return",
     "true", "false", "sizeof"}

Numerals == {"0", "1", "2", "3", "2.5", "1e2"}

OperatorLexemes ==
    DOMAIN PRECEDENCE \cup {"{", "}", "(", ")", "[", "]", ",", ";", "!"}

(* the group of MASTER_RE a lexeme matches, keywords split from identifiers *)
TokenType(lexeme) ==
    IF lexeme \in KEYWORDS THEN "KW"
    ELSE IF lexeme \in Numerals THEN "NUMBER"
    ELSE IF lexeme = "\"s\"" THEN "STRING"
    ELSE IF lexeme = "'c'" THEN "CHAR"
    ELSE IF lexeme \in OperatorLexemes THEN "OP"
    ELSE "ID"

(* tokenize: one Token per lexeme, pos the offset of its first character, and  *)
(* the EOF token at len(code)                                                  *)
RECURSIVE TokensFrom(_, _)
TokensFrom(lexemes, offset) ==
    IF Len(lexemes) = 0 THEN <<Token("EOF", "", IF offset = 0 THEN 0 ELSE offset - 1)>>
    ELSE <<Token(TokenType(lexemes[1]), lexemes[1], offset)>>
            \o TokensFrom(Tail(lexemes), offset + Len(lexemes[1]) + 1)

tokenize(lexemes) == TokensFrom(lexemes, 0)

MaxOperators == 3

MaxTokens == 3

MaxChunks == 2

OperandName(i) == <<"a", "b", "c", "d", "e", "f">>[i]

(* a op1 b op2 c ... *)
RECURSIVE Interleave(_, _)
Interleave(ops, i) ==
    IF i > Len(ops) THEN <<>>
    ELSE <<ops[i], OperandName(i + 1)>> \o Interleave(ops, i + 1)

ExpressionSource(ops) == <<OperandName(1)>> \o Interleave(ops, 1)

(* the text before the body of a function: nothing, `int f() {` or             *)
(* `int f(int a, float[] b) {`                                                 *)
Headers ==
    { <<>>,
      <<"int", "f", "(", ")", "{">>,
      <<"int", "f", "(", "int", "a", ",", "float", "[", "]", "b", ")", "{">> }

Alphabet == {"{", "}", ";", "int", "x", "=", "1", "(", ")"}

(* statements, well-formed and not *)
Chunks ==
    { <<"x", ";">>,
      <<"x", "=", "1", ";">>,
      <<"int", "x", "=", "1", ";">>,
      <<"int", "x", "[", "2", "]", "[", "]", ";">>,
      <<"int", "x", "[", "2.5", "]", ";">>,
      <<"int", "y", "=", "{", "1", ",", "2", "}", ";">>,
      <<"int", "g", "(", ")", "{", "}">>,
      <<"{", "x", ";", "}">>,
      <<"if", "(", "x", "<", "1", ")", "x", ";", "else", "{", "x", ";", "}">>,
      <<"if", "(", "true", ")", "{", "x", "=", "1", ";", "}">>,
      <<"while", "(", "x", "<", "3", ")", "{", "x", "=", "x", "+", "1", ";", "}">>,
      <<"while", "(", "x", ")", "x", ";">>,
      <<"return", "x", ";">>,
      <<"return", ";">>,
      <<"x", "(", "1", ",", "2.5", ")", "(", ")", ";">>,
      <<"x", "[", "1", "]", ";">>,
      <<"(", "x", "+", "1e2", ")", "*", "\"s\"", ";">>,
      <<"'c'", ";">>,
      <<"!", "x", ";">>,
      <<"x", "=", "1">> }

RECURSIVE Concat(_)
Concat(seqs) == IF Len(seqs) = 0 THEN <<>> ELSE seqs[1] \o Concat(Tail(seqs))

ParseInit ==
    /\ mode = "parse"
    /\ phase = "new"
    /\ \/ \E n \in 1..MaxOperators : \E ops \in [1..n -> DOMAIN PRECEDENCE] :
            input = [family |-> "expression", operators |-> ops,
                     source |-> ExpressionSource(ops)]
       \/ \E h \in Headers, n \in 0..MaxTokens : \E body \in [1..n -> Alphabet] :
            input = [family |-> "text", source |-> h \o body]
       \/ \E h \in Headers \ {<<>>}, n \in 1..MaxChunks : \E body \in [1..n -> Chunks] :
            input = [family |-> "statements", source |-> h \o Concat(body) \o <<"}">>]
    /\ tokens = tokenize(input.source)
    /\ pos = 0
    /\ numpy = FALSE
    /\ frames = <<>>
    /\ functions = EmptyDict
    /\ calls = <<>>
    /\ result = NoResult
    /\ inferred = NoResult
    /\ tast = None
    /\ type_env = EmptyDict

(* the parser's variables after a call that ended as r *)
Finish(r) ==
    /\ tast' = r.node
    /\ pos' = r.pos
    /\ result' = [err |-> r.err, val |-> r.at]
    /\ phase' = "done"
    /\ UNCHANGED <<tokens, mode, input, numpy, frames, functions, calls, inferred, type_env>>

Parse ==
    /\ mode = "parse"
    /\ phase = "new"
    /\ input.family \in {"text", "statements"}
    /\ Finish(parse(tokens, pos))

ParseExpression ==
    /\ mode = "parse"
    /\ phase = "new"
    /\ input.family = "expression"
    /\ Finish(parse_expression(tokens, pos, 0))

ParseNext == Parse \/ ParseExpression

SpecParse == ParseInit /\ [][ParseNext]_vars

-----------------------------------------------------------------------------
(* The parser: precedence, error positions, the statements of a Block          *)

ExpressionParsed == mode = "parse" /\ input.family = "expression" /\ phase = "done"

(* the operator of ops[lo..hi] at which the chain splits: one of the lowest    *)
(* precedence, the last of them, or the first when they are `=`                *)
SplitAt(ops, lo, hi) ==
    LET lowest == { k \in lo..hi :
                      \A j \in lo..hi : PRECEDENCE[ops[k]] <= PRECEDENCE[ops[j]] }
    IN  CHOOSE k \in lowest :
            \A j \in lowest : IF ops[k] = "=" THEN k <= j ELSE k >= j

(* the tree the precedence table dictates for operand lo, ops[lo], ...,        *)
(* ops[hi], operand hi + 1                                                     *)
RECURSIVE Grouping(_, _, _)
Grouping(ops, lo, hi) ==
    IF lo > hi THEN VarRef(OperandName(lo))
    ELSE LET k == SplitAt(ops, lo, hi)
             left == Grouping(ops, lo, k - 1)
             right == Grouping(ops, k + 1, hi)
         IN  IF ops[k] = "=" THEN Assignment(left, right)
             ELSE OperatorCall(ops[k], <<left, right>>)

(* C25: parse_expression builds, for every sequence of binary operators, the   *)
(* tree the precedence table dictates: higher precedence binds tighter,        *)
(* operators of equal precedence group to the left, `=` groups to the right;   *)
(* the whole expression is consumed.                                           *)
C25_PrecedenceClimb ==
    ExpressionParsed =>
        /\ result.err = "none"
        /\ tast = Grouping(input.operators, 1, Len(input.operators))
        /\ peek(tokens, pos).type = "EOF"

(* a - b - c * d is parsed as (a - b) - (c * d) *)
C25_Witness ==
    /\ ExpressionParsed
    /\ input.operators = <<"-", "-", "*">>
    /\ tast = OperatorCall("-", <<OperatorCall("-", <<VarRef("a"), VarRef("b")>>),
                                  OperatorCall("*", <<VarRef("c"), VarRef("d")>>)>>)

ParserFinished == mode = "parse" /\ phase = "done"

(* C26: every ParserError raised on a token sequence that ends with EOF        *)
(* carries the source position of the offending token, the one the parser      *)
(* stopped at; the error for a block still open at EOF included.               *)
C26_ParserErrorCarriesPosition ==
    (ParserFinished /\ result.err = "ParserError")
        => /\ Len(result.val) >= 1
           /\ result.val[1] = peek(tokens, pos).pos

ProgramParsed ==
    mode = "parse" /\ input.family \in {"text", "statements"} /\ phase = "done"
        /\ result.err = "none"

StatementForms == {"ExprStmt", "Assignment", "DeclStmt", "WhileLoop"}

(* every Block of the tree holds only nodes of the four statement forms *)
RECURSIVE BlocksHoldStatements(_)
BlocksHoldStatements(n) ==
    LET All(nodes) == \A i \in 1..Len(nodes) : BlocksHoldStatements(nodes[i]) IN
    CASE n.kind = "Program" -> All(n.declarations)
      [] n.kind = "FunctionDef" -> BlocksHoldStatements(n.body)
      [] n.kind = "VarDecl" -> BlocksHoldStatements(n.initializer)
      [] n.kind = "Block" ->
            /\ \A i \in 1..Len(n.statements) : n.statements[i].kind \in StatementForms
            /\ All(n.statements)
      [] n.kind = "ExprStmt" -> BlocksHoldStatements(n.expression)
      [] n.kind = "Assignment" ->
            BlocksHoldStatements(n.lvalue) /\ BlocksHoldStatements(n.rvalue)
      [] n.kind = "DeclStmt" -> BlocksHoldStatements(n.declaration)
      [] n.kind = "WhileLoop" ->
            BlocksHoldStatements(n.condition) /\ BlocksHoldStatements(n.body)
      [] n.kind = "IfExpr" ->
            /\ BlocksHoldStatements(n.condition)
            /\ BlocksHoldStatements(n.then_expr)
            /\ BlocksHoldStatements(n.else_expr)
      [] n.kind = "OperatorCall" -> All(n.operands)
      [] n.kind = "FunctionCall" -> BlocksHoldStatements(n.function) /\ All(n.arguments)
      [] n.kind = "ArrayLiteral" -> All(n.value)
      [] OTHER -> TRUE

(* C27: every element the parser places in a Block's statement sequence is an  *)
(* ExprStmt, an Assignment, a DeclStmt or a WhileLoop.                         *)
C27_BlocksHoldStatementForms == ProgramParsed => BlocksHoldStatements(tast)

-----------------------------------------------------------------------------
(* The type of a Block against the value of the Block                          *)

BlockTypedAndEvaluated ==
    mode = "operator" /\ input.family = "block" /\ inferred.err # "pending" /\ phase = "done"

(* the expression of the last ExprStmt of a statement sequence, None if none *)
RECURSIVE LastExprStmt(_)
LastExprStmt(stmts) ==
    IF Len(stmts) = 0 THEN None
    ELSE IF stmts[Len(stmts)].kind = "ExprStmt" THEN stmts[Len(stmts)].expression
    ELSE LastExprStmt(SubSeq(stmts, 1, Len(stmts) - 1))

(* the type of that expression in a Block that declares `int x`: a literal's   *)
(* type, int for x, unit when there is no ExprStmt                             *)
LastExprStmtType ==
    LET e == LastExprStmt(input.statements) IN
    IF IsNone(e) THEN UnitT
    ELSE IF e.kind = "VarRef" THEN IntT
    ELSE TypeOfLiteral(e)

(* the type of a scalar runtime value, unit for None *)
ValueType(value) ==
    IF IsNone(value) THEN UnitT ELSE Type(PrimitiveType(value.kind), 0)

(* C28: the type inferred for a Block is the type of the expression of its     *)
(* last ExprStmt, whatever statements follow it, and unit when it has no       *)
(* ExprStmt; it is the type of the value the interpreter returns for the       *)
(* Block.                                                                      *)
C28_BlockTypeIsLastExprStmtType ==
    BlockTypedAndEvaluated =>
        /\ inferred = Ok(LastExprStmtType)
        /\ result.err = "none"
        /\ ValueType(result.val.value) = inferred.val

-----------------------------------------------------------------------------
(* Evaluation of an annotated tree against the tree as written                 *)

LambdaCalled == mode = "operator" /\ input.family = "lambda" /\ phase = "done"

(* the outcome of ((int y) => y op 1)(a), of ((int y) => y / 0)(a) *)
LambdaOutcome ==
    CASE input.body = "+" -> Ok(PyInt(input.a + 1))
      [] input.body = "*" -> Ok(PyInt(input.a))
      [] input.body = "<" -> Ok(PyBool(input.a < 1))
      [] input.body = "/" -> Raise("ZeroDivisionError")

(* C29: the call of a lambda closure has the same outcome, the same value or   *)
(* the same error, whether the LambdaLiteral was annotated before the          *)
(* evaluation or not.                                                          *)
C29_AnnotationKeepsEvaluation ==
    LambdaCalled =>
        /\ result.err = LambdaOutcome.err
        /\ result.err = "none" => result.val.value = LambdaOutcome.val

-----------------------------------------------------------------------------
(* The function a FunctionCall invokes                                         *)

CalleeCalled ==
    /\ mode = "interpret" /\ input.family = "callee" /\ phase = "done"
    /\ "f" \in DOMAIN frames[GlobalFrame].vars

(* the value of the function the callee expression evaluates to, applied to a *)
CalleeResult ==
    IF input.variant = "Shadow" THEN PyInt(input.a * 2) ELSE PyInt(input.a + 1)

(* C30: a FunctionCall invokes the function value its callee evaluates to in   *)
(* the current frame: a local binding that shadows a top-level FunctionDef is  *)
(* the one called, and a FunctionDef declared in a Block, or reached through   *)
(* another variable, is called with the result of the top-level FunctionDef    *)
(* called by its own name.                                                     *)
C30_CallInvokesCalleeValue ==
    CalleeCalled => (result.err = "none" /\ result.val.value = CalleeResult)

=============================================================================
